---- MODULE Spec2Model ----
(***************************************************************************)
(* The terminal WebSocket server of app/terminal_socket_server.py and the  *)
(* terminal sessions of app/tools/terminal/terminal_manager.py.            *)
(*                                                                         *)
(* Every WebSocket connection is one coroutine of a single asyncio event   *)
(* loop (handle_connection).  A coroutine keeps the loop from the point it *)
(* is resumed until its next suspension: `owner` is the connection whose   *)
(* coroutine holds the loop, 0 when the loop is free.  The suspensions of  *)
(* the code are ws.receive_text() and the asyncio.sleep() calls of         *)
(* Terminal.init, set_working_directory, kill_process and send_*; the      *)
(* pexpect calls (sendline, expect, kill, terminate) are synchronous and   *)
(* never release the loop.  The clients and the shell processes are the    *)
(* environment and act at any time.                                        *)
(*                                                                         *)
(* The browser session of app/tools/browser/browser_manager.py and the     *)
(* /browser/action and /healthz endpoints of app/server.py run as tasks of *)
(* the same kind of loop: a task keeps the loop between two awaits, so a   *)
(* step of the model is the code between two awaits.                       *)
(***************************************************************************)
EXTENDS Integers, Sequences, FiniteSets, TLC

\* ------------------------------------------------------------------ bounds
NumConns == 2
MaxMsgs == 3
DiscMsgs == 2
NamesMsgs == 3
SendMsgs == 3
HistClock == 102
ResetAllMsgs == 4

ViewHist == 3
PromptLen == 20
CmdLen == 4
TextPieces == 4

NumTasks == 3
MaxBrowserOps == 4
FairOps == 3

MaxEdOps == 2
MaxContent == 3
MaxNeedle == 2
PathLen == 10
ManyLines == 1745

MaxUploads == 2
MaxFile == 3
MaxPartSize == 2
MaxNow == 1
MaxSecretCalls == 3
MaxDepth == 2
MaxSteps == 3

\* ------------------------------------------------------- program constants
HistoryCap == 100
\* get_history: max_text_length, max_total_length and the lengths of the
\* literal strings it and truncate_text_from_back add
MaxTextLength == 5000
MaxTotalLength == 10000
TruncMarkLen == 31
HistMarkLen == 33
NoHistoryLen == 30
MaxResponseLen == 16000
TruncatedMessageLen == 240
HeaderLen == 43
LineWidth == 8
NumberLen == 9
TabSize == 4
MultipartThreshold == 10485760
MaxInputTokens == 128000
CharactersPerToken == 3
ImageTokens == 800

Conns == 1..NumConns
\* the terminal names a client may use; the clients of Spec use one of them
Names == {"t1", "t2"}
Terms == {"t1"}

\* result strings of Terminal.execute_command / _do_execute_command
RNone == ""
\* mutant of RBusy: the busy path returns an empty (falsy) result
RBusyEmpty == RNone
RBusy == "A command is already running in this terminal"
REmpty == "Empty command"
RDone == "Command completed"
REof == "Shell process ended unexpectedly"
RTimeout == "Command timed out"
RError == "Error"

\* A command text is a sequence of lines; Blank is a whitespace-only line.
Blank == " "
Commands == {<<>>, <<Blank>>, <<"a">>, <<"a", "b">>}
SendModes == {"send_line", "send_key", "send_control"}
\* texts that are not a TerminalInputMessage: not JSON, or JSON that fails validation
Unparsed == {"invalid_json", "invalid_format"}

NoMsg ==
  [type |-> "none", terminal |-> "", action_id |-> 0, command |-> <<>>,
   mode |-> "", exec_dir |-> FALSE, during |-> {}]

Msg(ty, t, cmd, mode, dir) ==
  [type |-> ty, terminal |-> t, action_id |-> 0, command |-> cmd,
   mode |-> mode, exec_dir |-> dir, during |-> {}]

\* TerminalInputMessage: the messages the clients of Spec send
MsgShapes ==
  {Msg(ty, t, <<>>, "", FALSE) : ty \in {"reset", "kill_process"}, t \in Terms}
  \cup {Msg("command", t, cmd, "run", FALSE) : t \in Terms, cmd \in {<<>>, <<"a", "b">>}}
  \cup {Msg("command", t, <<"a">>, "run", TRUE) : t \in Terms}
  \cup {Msg("command", t, <<"a">>, "send_line", FALSE) : t \in Terms}

VARIABLES
  terminals,    \* terminal_manager.terminals: the name of every Terminal object
                \* stored in the dict, in insertion order (a name stored twice is a
                \* second object that replaced the first)
  shell,        \* Terminal.shell: "none" (None), "alive" or "dead" (isalive())
  history,      \* Terminal.history: sequence of [ts, command, finished]
  is_running,   \* Terminal.is_running
  clock,        \* datetime.now(), counted in add_history calls
  owner,        \* the connection whose coroutine holds the event loop, 0 if none
  connected,    \* the client side of the WebSocket is open
  pending,      \* the message the client has sent and the server has not read
  sent,         \* number of messages the clients have sent (the next action_id)
  cur,          \* the message the connection's handler is handling (or handled last)
  pc,           \* position of the connection's coroutine
  ret,          \* where the coroutine continues after asyncio.sleep
  sleepers,     \* the connections suspended in asyncio.sleep, in the order they began
  stream,       \* frames sent in answer to cur
  cmds,         \* execute_command: the statements still to execute
  result,       \* execute_command: result
  item,         \* _do_execute_command: history_item (its timestamp, 0 if none)
  todo,         \* reset_all: the terminals still to reset
  writes,       \* what the handler of cur has written to the pty
  killed,       \* a kill_process was handled on the session during this handler's run
  busyAtStart,  \* is_running of the session when the handler of cur began
  orphan,       \* the client closed the connection while the handler of cur was in flight
  arg,          \* the argument of the function under check
  val,          \* the value the function returned for arg
  status,       \* BrowserManager.status: "started", "initializing" or "ready"
  browser,      \* BrowserManager.browser is not None
  browser_context, \* BrowserManager.browser_context is not None
  controller,   \* BrowserManager.controller is not None
  bpc,          \* the await each task of the browser endpoints is suspended in
  bfrom,        \* the function the task is in (under initialize, its caller)
  bops,         \* number of requests and calls started on the browser session
  bresp,        \* the answer to the task's last request: "none" (not answered, or
                \* nothing to answer), "success" or "error" (BrowserActionResponse),
                \* "http500" (an exception left browser_action)
  bwaited,      \* the task's request found the status "initializing" when it arrived
  fkind,        \* what the path of the text editor's requests is: "absent",
                \* "file" or "dir"
  fcontent,     \* the content of the file at the path
  elog,         \* the text editor's requests so far, with their responses
  storage,      \* the files of LOCAL_STORAGE_DIR: unique filename -> bytes
  partfiles,    \* the part files under LOCAL_STORAGE_DIR/tmp: path -> bytes
  secretfiles,  \* the files of $HOME/.secrets: filename -> content
  now,          \* the wall clock, in seconds
  slog,         \* the requests to the file and sandbox endpoints so far, with
                \* their responses
  messages,     \* MessageManager.history.messages
  current_tokens, \* MessageManager.history.current_tokens
  added         \* number of add_state_message calls so far

termVars == <<terminals, shell, history, is_running, clock>>
connVars == <<connected, pending, sent>>
locVars == <<cmds, result, item, todo>>
ghostVars == <<writes, killed, busyAtStart, orphan>>
\* the state of the terminal server
terminalVars ==
  <<terminals, shell, history, is_running, clock, owner, connected, pending,
    sent, cur, pc, ret, sleepers, stream, cmds, result, item, todo, writes, killed,
    busyAtStart, orphan>>
\* the state outside the terminal server: the argument and the value of a
\* function applied on its own
browserVars ==
  <<status, browser, browser_context, controller, bpc, bfrom, bops, bresp,
    bwaited>>
editorVars == <<fkind, fcontent, elog>>
serviceVars == <<storage, partfiles, secretfiles, now, slog>>
managerVars == <<messages, current_tokens, added>>
auxVars == <<arg, val, browserVars, editorVars, serviceVars, managerVars>>
\* the state a task of the browser endpoints leaves alone
nonBrowserVars == <<terminalVars, arg, val, editorVars, serviceVars, managerVars>>
vars == <<terminalVars, auxVars>>

Range(s) == {s[i] : i \in 1..Len(s)}

RunPcs == {"do_add", "expect", "eof_done"}

\* the handler of connection c is inside Terminal.execute_command, past the
\* is_running check, executing a statement
InFlight(c) ==
  /\ cur[c].type = "command"
  /\ cur[c].mode = "run"
  /\ \/ pc[c] \in RunPcs
     \/ pc[c] = "sleep" /\ ret[c] \in RunPcs

InFlightOn(t) == {c \in Conns : InFlight(c) /\ cur[c].terminal = t}

\* the runs in flight on session t, each named by connection and action_id
InFlightRuns(t) == {<<c, cur[c].action_id>> : c \in InFlightOn(t)}

\* nothing has been applied yet
NoArg == <<>>
NoVal == <<>>

InitTerminals ==
  /\ terminals = <<>>
  /\ shell = [t \in Names |-> "none"]
  /\ history = [t \in Names |-> <<>>]
  /\ is_running = [t \in Names |-> FALSE]
  /\ clock = 0
  /\ owner = 0
  /\ connected = [c \in Conns |-> TRUE]
  /\ pending = [c \in Conns |-> NoMsg]
  /\ sent = 0
  /\ cur = [c \in Conns |-> NoMsg]
  /\ pc = [c \in Conns |-> "recv"]
  /\ ret = [c \in Conns |-> ""]
  /\ sleepers = <<>>
  /\ stream = [c \in Conns |-> <<>>]
  /\ cmds = [c \in Conns |-> <<>>]
  /\ result = [c \in Conns |-> RNone]
  /\ item = [c \in Conns |-> 0]
  /\ todo = [c \in Conns |-> <<>>]
  /\ writes = [c \in Conns |-> {}]
  /\ killed = [c \in Conns |-> FALSE]
  /\ busyAtStart = [c \in Conns |-> FALSE]
  /\ orphan = [c \in Conns |-> FALSE]

Tasks == 1..NumTasks

\* BrowserManager.__init__, and no request in progress
InitBrowser ==
  /\ status = "started"
  /\ browser = FALSE
  /\ browser_context = FALSE
  /\ controller = FALSE
  /\ bpc = [t \in Tasks |-> "idle"]
  /\ bfrom = [t \in Tasks |-> "none"]
  /\ bops = 0
  /\ bresp = [t \in Tasks |-> "none"]
  /\ bwaited = [t \in Tasks |-> FALSE]

\* nothing at the path of the text editor, no request yet
InitNoFile ==
  /\ fkind = "absent"
  /\ fcontent = <<>>
  /\ elog = <<>>

\* ------------------------------------------------- the message manager
\* browser_use/agent/message_manager: the history of a MessageManager made
\* with the constructor arguments (no settings object), as its tests make it.

\* _count_text_tokens(text), for a text of that many characters
CountTextTokens(chars) == chars \div CharactersPerToken

\* _count_tokens(message)
CountTokens(chars, image) ==
  CountTextTokens(chars) + (IF image THEN ImageTokens ELSE 0)

\* a message of the history with its metadata; step is the number of the
\* add_state_message call a state message stems from, 0 for other messages
ManagedMessage(type, chars, image, step) ==
  [type |-> type, chars |-> chars, image |-> image, step |-> step,
   tokens |-> CountTokens(chars, image)]

\* the sum of the tokens of a list of messages
RECURSIVE TokensOf(_)
TokensOf(ms) == IF ms = <<>> THEN 0 ELSE Head(ms).tokens + TokensOf(Tail(ms))

\* MessageManager.__init__: the system prompt, the task, the example of an
\* output with its tool call and tool message, and the memory placeholder
InitialMessages ==
  <<ManagedMessage("system", 3000, FALSE, 0),
    ManagedMessage("human", 200, FALSE, 0),
    ManagedMessage("human", 15, FALSE, 0),
    ManagedMessage("ai", 400, FALSE, 0),
    ManagedMessage("tool", 15, FALSE, 0),
    ManagedMessage("human", 38, FALSE, 0)>>

InitManager ==
  /\ messages = InitialMessages
  /\ current_tokens = TokensOf(InitialMessages)
  /\ added = 0

\* empty directories, no request yet
InitService ==
  /\ storage = <<>>
  /\ partfiles = <<>>
  /\ secretfiles = <<>>
  /\ now = 0
  /\ slog = <<>>

Init ==
  /\ InitTerminals
  /\ InitBrowser
  /\ InitNoFile
  /\ InitService
  /\ InitManager
  /\ arg = NoArg
  /\ val = NoVal

\* ------------------------------------------------------------ pure helpers

\* str.strip() on a command text: drop the leading and trailing blank lines
RECURSIVE LStrip(_)
LStrip(s) == IF s # <<>> /\ Head(s) = Blank THEN LStrip(Tail(s)) ELSE s

RECURSIVE RStrip(_)
RStrip(s) ==
  IF s # <<>> /\ s[Len(s)] = Blank THEN RStrip(SubSeq(s, 1, Len(s) - 1)) ELSE s

Strip(s) == RStrip(LStrip(s))

\* split_bash_commands: one entry per top-level statement, [''] for a blank text
SplitBashCommands(commands) ==
  IF Strip(commands) = <<>> THEN <<Blank>>
  ELSE SelectSeq(commands, LAMBDA l : l # Blank)

\* mutant of AddHistory: the entry is appended and the oldest is never dropped
AddHistoryNoPop(h, it) == Append(h, it)

\* Terminal.add_history
AddHistory(h, it) ==
  LET a == Append(h, it) IN IF Len(a) > HistoryCap THEN Tail(a) ELSE a

\* history_item.finished = True, on the item object the handler holds
FinishItem(h, ts) ==
  [i \in 1..Len(h) |->
     IF h[i].ts = ts THEN [h[i] EXCEPT !.finished = TRUE] ELSE h[i]]

\* mutant of Frame: the frame does not echo the action_id of the message
FrameUnkeyed(c, ty, res, st) ==
  [type |-> ty, terminal |-> cur[c].terminal, action_id |-> 0,
   result |-> res, terminal_status |-> st, sub_command_index |-> 0]

\* TerminalOutputMessage answering cur[c]
Frame(c, ty, res, st) ==
  [type |-> ty, terminal |-> cur[c].terminal, action_id |-> cur[c].action_id,
   result |-> res, terminal_status |-> st, sub_command_index |-> 0]

StatusOf(t) == IF is_running[t] THEN "running" ELSE "idle"

\* shell.sendline / send on a pty whose child is gone either succeeds or raises
SendOutcomes(t) == IF shell[t] = "alive" THEN {"ok"} ELSE {"ok", "raise"}

\* shell.expect([prompt, TIMEOUT, EOF]) in the wait loop of _do_execute_command
ExpectOutcomes(t) ==
  IF shell[t] = "alive" THEN {"prompt", "eof", "timed_out", "error"}
  ELSE {"eof", "error"}

\* --------------------------------------------------------- control helpers

Goto(c, k) == pc' = [pc EXCEPT ![c] = k] /\ UNCHANGED <<ret, owner, sleepers>>

\* await asyncio.sleep(..): release the loop, continue at k
Sleep(c, k) ==
  /\ pc' = [pc EXCEPT ![c] = "sleep"]
  /\ ret' = [ret EXCEPT ![c] = k]
  /\ sleepers' = Append(sleepers, c)
  /\ owner' = 0

\* send_resp: ws.send_text raises on a closed socket and send_resp swallows it
Reply(c, frame) ==
  /\ stream' = [stream EXCEPT ![c] = IF connected[c] THEN Append(@, frame) ELSE @]
  /\ Goto(c, "replied")

Wrote(c, tag) == writes' = [writes EXCEPT ![c] = @ \cup {tag}]

\* Terminal.init on a shell that is not alive: spawn, sendline(echo), sleep
InitThen(c, t, k) ==
  /\ shell' = [shell EXCEPT ![t] = "alive"]
  /\ Wrote(c, "echo")
  /\ Sleep(c, k)

\* `if not self.shell or not self.shell.isalive(): await self.init(..)`
EnsureShell(c, t, k) ==
  IF shell[t] = "alive"
  THEN Goto(c, k) /\ UNCHANGED <<shell, writes>>
  ELSE InitThen(c, t, k)

\* ------------------------------------------------------------- environment

\* a message of the client reaches the server: the loop reads the socket
\* between two turns
ClientSendOf(c, shapes, budget) ==
  /\ owner = 0
  /\ connected[c]
  /\ pending[c] = NoMsg
  /\ sent < budget
  /\ \E m \in shapes :
       pending' = [pending EXCEPT ![c] =
         [m EXCEPT !.action_id = sent + 1,
                   !.during = IF m.mode \in SendModes
                              THEN InFlightRuns(m.terminal) ELSE {}]]
  /\ sent' = sent + 1
  /\ UNCHANGED <<termVars, owner, sleepers, connected, cur, pc, ret, stream, locVars,
                 ghostVars>>
  /\ UNCHANGED auxVars

ClientDisconnect(c) ==
  /\ owner = 0
  /\ connected[c]
  /\ connected' = [connected EXCEPT ![c] = FALSE]
  /\ orphan' = [orphan EXCEPT ![c] = pc[c] # "recv"]
  /\ UNCHANGED <<termVars, owner, sleepers, pending, sent, cur, pc, ret, stream, locVars,
                 writes, killed, busyAtStart>>
  /\ UNCHANGED auxVars

\* the shell process of a session ends (exit typed into it, killed from
\* outside) between two turns of the event loop; a death during expect is the
\* EOF outcome of Expect
ShellExit(t) ==
  /\ owner = 0
  /\ shell[t] = "alive"
  /\ shell' = [shell EXCEPT ![t] = "dead"]
  /\ UNCHANGED <<terminals, history, is_running, clock, owner, sleepers, connVars, cur, pc,
                 ret, stream, locVars, ghostVars>>
  /\ UNCHANGED auxVars

ClientSend(c) == ClientSendOf(c, MsgShapes, MaxMsgs)

\* ------------------------------------------------------- handle_connection

\* msg_text = await ws.receive_text(); handle_msg(..)
Recv(c) ==
  /\ pc[c] = "recv"
  /\ owner = 0
  /\ pending[c] # NoMsg
  /\ cur' = [cur EXCEPT ![c] = pending[c]]
  /\ pending' = [pending EXCEPT ![c] = NoMsg]
  /\ busyAtStart' = [busyAtStart EXCEPT ![c] = is_running[pending[c].terminal]]
  /\ pc' = [pc EXCEPT ![c] = "dispatch"]
  /\ owner' = c
  /\ UNCHANGED <<termVars, connected, sent, ret, sleepers, stream, locVars, writes, killed,
                 orphan>>
  /\ UNCHANGED auxVars

\* the handler returns to handle_connection, which loops to ws.receive_text():
\* the locals of the handler are gone
Done(c) ==
  /\ pc[c] = "replied"
  /\ cur' = [cur EXCEPT ![c] = NoMsg]
  /\ stream' = [stream EXCEPT ![c] = <<>>]
  /\ cmds' = [cmds EXCEPT ![c] = <<>>]
  /\ result' = [result EXCEPT ![c] = RNone]
  /\ item' = [item EXCEPT ![c] = 0]
  /\ todo' = [todo EXCEPT ![c] = <<>>]
  /\ writes' = [writes EXCEPT ![c] = {}]
  /\ killed' = [killed EXCEPT ![c] = FALSE]
  /\ busyAtStart' = [busyAtStart EXCEPT ![c] = FALSE]
  /\ orphan' = [orphan EXCEPT ![c] = FALSE]
  /\ pc' = [pc EXCEPT ![c] = "recv"]
  /\ ret' = [ret EXCEPT ![c] = ""]
  /\ owner' = 0
  /\ UNCHANGED <<termVars, connVars, sleepers>>
  /\ UNCHANGED auxVars

\* ws.receive_text() raises WebSocketDisconnect
Closed(c) ==
  /\ pc[c] = "recv"
  /\ owner = 0
  /\ pending[c] = NoMsg
  /\ ~connected[c]
  /\ pc' = [pc EXCEPT ![c] = "closed"]
  /\ UNCHANGED <<termVars, owner, sleepers, connVars, cur, ret, stream, locVars, ghostVars>>
  /\ UNCHANGED auxVars

\* the sleep lasts 0.2 s (set_working_directory, kill_process, send_control)
\* and not 0.1 s (Terminal.init, send_line, send_key)
LongSleep(c) ==
  \/ ret[c] \in {"wd_pwd", "mode", "kill2"}
  \/ ret[c] = "send_reply" /\ cur[c].mode = "send_control"

\* the loop wakes its timers in the order of their deadlines: a sleep that
\* began earlier ends first unless it is the longer one
CanWake(c) ==
  \A i, j \in 1..Len(sleepers) :
    (i < j /\ sleepers[j] = c) => (LongSleep(sleepers[i]) /\ ~LongSleep(c))

\* asyncio resumes the coroutine after its sleep
Resume(c) ==
  /\ pc[c] = "sleep"
  /\ owner = 0
  /\ CanWake(c)
  /\ sleepers' = SelectSeq(sleepers, LAMBDA d : d # c)
  /\ pc' = [pc EXCEPT ![c] = ret[c]]
  /\ owner' = c
  /\ UNCHANGED <<termVars, connVars, cur, ret, stream, locVars, ghostVars>>
  /\ UNCHANGED auxVars

\* mutant of Registered: the membership test never finds the name
RegisteredNever(t) == FALSE

\* `name in self.terminals`
Registered(t) == t \in Range(terminals)

\* TerminalManager.create_or_get_terminal, continuing at k
GetTerminal(c, t, k) ==
  IF Registered(t)
  THEN Goto(c, k) /\ UNCHANGED <<terminals, shell, writes>>
  ELSE terminals' = Append(terminals, t) /\ InitThen(c, t, k)

\* the message does not reach do_handle_msg: json.loads raises (the error frame
\* of handle_connection carries empty strings) or TerminalInputMessage(**msg)
\* raises ValidationError (the error frame of handle_msg echoes the fields)
Invalid(c) ==
  /\ pc[c] = "dispatch"
  /\ cur[c].type \in Unparsed
  /\ IF cur[c].type = "invalid_json"
     THEN Reply(c, [Frame(c, "error", "Invalid JSON message", "idle")
                      EXCEPT !.terminal = "", !.action_id = 0])
     ELSE Reply(c, Frame(c, "error", "Invalid message format", "idle"))
  /\ UNCHANGED <<termVars, connVars, cur, locVars, ghostVars>>
  /\ UNCHANGED auxVars

\* do_handle_msg: the branch on msg.type
Dispatch(c) ==
  /\ pc[c] = "dispatch"
  /\ cur[c].type \notin Unparsed
  /\ LET m == cur[c] IN
     CASE m.type \in {"reset", "view", "kill_process"} ->
            /\ GetTerminal(c, m.terminal,
                 CASE m.type = "reset" -> "reset"
                   [] m.type = "view" -> "view"
                   [] OTHER -> "kill")
            /\ UNCHANGED <<stream, todo>>
       [] m.type = "reset_all" ->
            /\ todo' = [todo EXCEPT ![c] = terminals]
            /\ Goto(c, "reset_all")
            /\ UNCHANGED <<terminals, shell, writes, stream>>
       [] m.type = "command" /\ m.command = <<>> ->
            /\ Reply(c, Frame(c, "error", "Command cannot be empty", "idle"))
            /\ UNCHANGED <<terminals, shell, writes, todo>>
       [] OTHER ->
            /\ GetTerminal(c, m.terminal, "cmd")
            /\ UNCHANGED <<stream, todo>>
  /\ UNCHANGED <<history, is_running, clock, connVars, cur, cmds, result, item,
                 killed, busyAtStart, orphan>>
  /\ UNCHANGED auxVars

\* ------------------------------------------------- reset, reset_all, view

\* mutant of ResetTerminal: the running flag is not cleared
ResetTerminalKeepFlag(c, t) ==
  /\ shell' = [shell EXCEPT ![t] = "alive"]
  /\ history' = [history EXCEPT ![t] = <<>>]
  /\ UNCHANGED is_running
  /\ Wrote(c, "echo")

\* Terminal.reset up to the sleep of init: terminate the shell, clear the
\* fields, spawn a new shell
ResetTerminal(c, t) ==
  /\ shell' = [shell EXCEPT ![t] = "alive"]
  /\ history' = [history EXCEPT ![t] = <<>>]
  /\ is_running' = [is_running EXCEPT ![t] = FALSE]
  /\ Wrote(c, "echo")

DoReset(c) ==
  /\ pc[c] = "reset"
  /\ ResetTerminal(c, cur[c].terminal)
  /\ Sleep(c, "reset_reply")
  /\ UNCHANGED <<terminals, clock, connVars, cur, stream, locVars, killed, busyAtStart, orphan>>
  /\ UNCHANGED auxVars

ResetReply(c) ==
  /\ pc[c] = "reset_reply"
  /\ Reply(c, Frame(c, "action_finish", "Terminal reset", "idle"))
  /\ UNCHANGED <<termVars, connVars, cur, locVars, ghostVars>>
  /\ UNCHANGED auxVars

\* for term_id in list(terminal_manager.terminals.keys()): await terminal.reset()
DoResetAll(c) ==
  /\ pc[c] = "reset_all"
  /\ IF todo[c] = <<>>
     THEN /\ Reply(c, Frame(c, "action_finish", "All terminals reset", "idle"))
          /\ UNCHANGED <<shell, history, is_running, writes, todo>>
     ELSE /\ ResetTerminal(c, Head(todo[c]))
          /\ todo' = [todo EXCEPT ![c] = Tail(@)]
          /\ Sleep(c, "reset_all")
          /\ UNCHANGED stream
  /\ UNCHANGED <<terminals, clock, connVars, cur, cmds, result, item, killed, busyAtStart, orphan>>
  /\ UNCHANGED auxVars

View(c) ==
  /\ pc[c] = "view"
  /\ Reply(c, Frame(c, "history", "", StatusOf(cur[c].terminal)))
  /\ UNCHANGED <<termVars, connVars, cur, locVars, ghostVars>>
  /\ UNCHANGED auxVars

\* ------------------------------------------------------------ kill_process

\* Terminal.kill_process up to its sleep: shell.kill(SIGTERM), which an
\* interactive shell may survive
Kill(c) ==
  /\ pc[c] = "kill"
  /\ LET t == cur[c].terminal IN
     /\ killed' = [d \in Conns |-> killed[d] \/ d \in InFlightOn(t)]
     /\ IF shell[t] # "alive"
        THEN /\ Reply(c, Frame(c, "action_finish", "Process killed", "idle"))
             /\ UNCHANGED shell
        ELSE /\ \E s \in {"alive", "dead"} : shell' = [shell EXCEPT ![t] = s]
             /\ Sleep(c, "kill2")
             /\ UNCHANGED stream
  /\ UNCHANGED <<terminals, history, is_running, clock, connVars, cur, locVars,
                 writes, busyAtStart, orphan>>
  /\ UNCHANGED auxVars

\* after the sleep: terminate(force=True) if still alive, then init
Kill2(c) ==
  /\ pc[c] = "kill2"
  /\ InitThen(c, cur[c].terminal, "kill3")
  /\ UNCHANGED <<terminals, history, is_running, clock, connVars, cur, stream,
                 locVars, killed, busyAtStart, orphan>>
  /\ UNCHANGED auxVars

\* self.is_running = False, and the action_finish frame
Kill3(c) ==
  /\ pc[c] = "kill3"
  /\ is_running' = [is_running EXCEPT ![cur[c].terminal] = FALSE]
  /\ Reply(c, Frame(c, "action_finish", "Process killed", "idle"))
  /\ UNCHANGED <<terminals, shell, history, clock, connVars, cur, locVars, ghostVars>>
  /\ UNCHANGED auxVars

\* ----------------------------------------------- command: exec_dir, send_*

\* `if msg.exec_dir:` and the first lines of set_working_directory
Cmd(c) ==
  /\ pc[c] = "cmd"
  /\ IF cur[c].exec_dir
     THEN EnsureShell(c, cur[c].terminal, "wd_cd")
     ELSE Goto(c, "mode") /\ UNCHANGED <<shell, writes>>
  /\ UNCHANGED <<terminals, history, is_running, clock, connVars, cur, stream,
                 locVars, killed, busyAtStart, orphan>>
  /\ UNCHANGED auxVars

\* one sendline of set_working_directory and the sleep after it; an exception
\* makes set_working_directory return False
WdLine(c, at, tag, k) ==
  /\ pc[c] = at
  /\ \E o \in SendOutcomes(cur[c].terminal) :
       IF o = "ok"
       THEN Wrote(c, tag) /\ Sleep(c, k) /\ UNCHANGED stream
       ELSE /\ Reply(c, Frame(c, "error", "Failed to change directory", "idle"))
            /\ UNCHANGED writes
  /\ UNCHANGED <<termVars, connVars, cur, locVars, killed, busyAtStart, orphan>>
  /\ UNCHANGED auxVars

WdCd(c) == WdLine(c, "wd_cd", "cd", "wd_pwd")

WdPwd(c) == WdLine(c, "wd_pwd", "pwd", "mode")

\* the branch on msg.mode; send_* and execute_command all begin by making
\* sure the shell is alive
Mode(c) ==
  /\ pc[c] = "mode"
  /\ EnsureShell(c, cur[c].terminal,
       IF cur[c].mode \in SendModes THEN "send" ELSE "exec_check")
  /\ UNCHANGED <<terminals, history, is_running, clock, connVars, cur, stream,
                 locVars, killed, busyAtStart, orphan>>
  /\ UNCHANGED auxVars

\* mutant of Send: a write that raises also clears the running flag
SendClearsFlag(c) ==
  /\ pc[c] = "send"
  /\ \E o \in SendOutcomes(cur[c].terminal) :
       IF o = "ok"
       THEN /\ Wrote(c, cur[c].mode) /\ Sleep(c, "send_reply")
            /\ UNCHANGED <<stream, is_running>>
       ELSE /\ Reply(c, Frame(c, "error", RError, "idle"))
            /\ is_running' = [is_running EXCEPT ![cur[c].terminal] = FALSE]
            /\ UNCHANGED writes
  /\ UNCHANGED <<terminals, shell, history, clock, connVars, cur, locVars, killed,
                 busyAtStart, orphan>>
  /\ UNCHANGED auxVars

\* send_key / send_line / send_control: the write and the sleep after it; an
\* exception of the write reaches handle_msg, which answers with an error frame
Send(c) ==
  /\ pc[c] = "send"
  /\ \E o \in SendOutcomes(cur[c].terminal) :
       IF o = "ok"
       THEN Wrote(c, cur[c].mode) /\ Sleep(c, "send_reply") /\ UNCHANGED stream
       ELSE Reply(c, Frame(c, "error", RError, "idle")) /\ UNCHANGED writes
  /\ UNCHANGED <<termVars, connVars, cur, locVars, killed, busyAtStart, orphan>>
  /\ UNCHANGED auxVars

SendReply(c) ==
  /\ pc[c] = "send_reply"
  /\ Reply(c, Frame(c, "action_finish", "sent", StatusOf(cur[c].terminal)))
  /\ UNCHANGED <<termVars, connVars, cur, locVars, ghostVars>>
  /\ UNCHANGED auxVars

\* ------------------------------------------------ command: mode run

\* execute_command after the shell check: the is_running test, the strip and
\* the split
ExecCheck(c) ==
  /\ pc[c] = "exec_check"
  /\ LET t == cur[c].terminal
         command == Strip(cur[c].command) IN
     IF is_running[t]
     THEN /\ result' = [result EXCEPT ![c] = RBusy]
          /\ Goto(c, "run_reply")
          /\ UNCHANGED cmds
     ELSE IF command = <<>>
     THEN /\ result' = [result EXCEPT ![c] = REmpty]
          /\ Goto(c, "run_reply")
          /\ UNCHANGED cmds
     ELSE /\ cmds' = [cmds EXCEPT ![c] = SplitBashCommands(command)]
          /\ result' = [result EXCEPT ![c] = RNone]
          /\ Goto(c, "exec_loop")
  /\ UNCHANGED <<termVars, connVars, cur, stream, item, todo, ghostVars>>
  /\ UNCHANGED auxVars

\* the loop of execute_command: `self.is_running = True` and the entry of
\* _do_execute_command for the next statement, or the return
ExecLoop(c) ==
  /\ pc[c] = "exec_loop"
  /\ LET t == cur[c].terminal IN
     IF cmds[c] = <<>>
     THEN /\ Goto(c, "run_reply")
          /\ UNCHANGED <<shell, is_running, writes, cmds>>
     ELSE IF Head(cmds[c]) = Blank
     THEN /\ cmds' = [cmds EXCEPT ![c] = Tail(@)]
          /\ Goto(c, "exec_loop")
          /\ UNCHANGED <<shell, is_running, writes>>
     ELSE /\ is_running' = [is_running EXCEPT ![t] = TRUE]
          /\ EnsureShell(c, t, "do_add")
          /\ UNCHANGED cmds
  /\ UNCHANGED <<terminals, history, clock, connVars, cur, stream, result, item,
                 todo, killed, busyAtStart, orphan>>
  /\ UNCHANGED auxVars

\* the statement has ended with result r: the history item is finished, the
\* flag is cleared (in _do_execute_command and again in execute_command) and
\* the loop of execute_command goes on
EndStatement(c, t, h, ts, r) ==
  /\ history' = [history EXCEPT ![t] = FinishItem(h, ts)]
  /\ is_running' = [is_running EXCEPT ![t] = FALSE]
  /\ result' = [result EXCEPT ![c] = r]
  /\ cmds' = [cmds EXCEPT ![c] = Tail(@)]
  /\ Goto(c, "exec_loop")

\* _do_execute_command: add_history and shell.sendline(command)
DoAdd(c) ==
  /\ pc[c] = "do_add"
  /\ LET t == cur[c].terminal
         ts == clock + 1
         h == AddHistory(history[t],
                [ts |-> ts, command |-> Head(cmds[c]), finished |-> FALSE]) IN
     /\ clock' = ts
     /\ item' = [item EXCEPT ![c] = ts]
     /\ \E o \in SendOutcomes(t) :
          IF o = "ok"
          THEN /\ history' = [history EXCEPT ![t] = h]
               /\ Wrote(c, "cmd")
               /\ Goto(c, "expect")
               /\ UNCHANGED <<is_running, result, cmds>>
          ELSE /\ EndStatement(c, t, h, ts, RError)
               /\ UNCHANGED writes
  /\ UNCHANGED <<terminals, shell, connVars, cur, stream, todo, killed, busyAtStart, orphan>>
  /\ UNCHANGED auxVars

\* the wait loop of _do_execute_command, up to the outcome that leaves it
Expect(c) ==
  /\ pc[c] = "expect"
  /\ LET t == cur[c].terminal IN
     \E o \in ExpectOutcomes(t) :
       IF o = "eof"
       THEN /\ InitThen(c, t, "eof_done")
            /\ UNCHANGED <<history, is_running, result, cmds>>
       ELSE /\ EndStatement(c, t, history[t], item[c],
                 CASE o = "prompt" -> RDone
                   [] o = "timed_out" -> RTimeout
                   [] OTHER -> RError)
            /\ UNCHANGED <<shell, writes>>
  /\ UNCHANGED <<terminals, clock, connVars, cur, stream, item, todo, killed,
                 busyAtStart, orphan>>
  /\ UNCHANGED auxVars

\* the EOF branch after `await self.init(..)`
EofDone(c) ==
  /\ pc[c] = "eof_done"
  /\ EndStatement(c, cur[c].terminal, history[cur[c].terminal], item[c], REof)
  /\ UNCHANGED <<terminals, shell, clock, connVars, cur, stream, item, todo,
                 ghostVars>>
  /\ UNCHANGED auxVars

\* do_handle_msg after execute_command: `if result:` finish, else update
RunReply(c) ==
  /\ pc[c] = "run_reply"
  /\ IF result[c] # RNone
     THEN Reply(c, Frame(c, "finish", result[c], "idle"))
     ELSE Reply(c, Frame(c, "update", "", "running"))
  /\ UNCHANGED <<termVars, connVars, cur, locVars, ghostVars>>
  /\ UNCHANGED auxVars

\* ---------------------------------------------------------- specification

Handler(c) ==
  \/ Recv(c) \/ Resume(c) \/ Dispatch(c) \/ Done(c)
  \/ DoReset(c) \/ ResetReply(c)
  \/ Kill(c) \/ Kill2(c) \/ Kill3(c)
  \/ Cmd(c) \/ WdCd(c) \/ WdPwd(c) \/ Mode(c) \/ Send(c) \/ SendReply(c)
  \/ ExecCheck(c) \/ ExecLoop(c) \/ DoAdd(c) \/ Expect(c) \/ EofDone(c)
  \/ RunReply(c)

\* Spec: the clients stay connected and send MaxMsgs messages in all
Next ==
  \/ \E c \in Conns : ClientSend(c) \/ Handler(c)
  \/ \E t \in Terms : ShellExit(t)

Spec == Init /\ [][Next]_vars

\* SpecDisconnect: the clients may also close their connection at any time
ClientSendDisc(c) == ClientSendOf(c, MsgShapes, DiscMsgs)

NextDisconnect ==
  \/ \E c \in Conns :
       ClientSendDisc(c) \/ ClientDisconnect(c) \/ Closed(c) \/ Handler(c)
  \/ \E t \in Terms : ShellExit(t)

SpecDisconnect == Init /\ [][NextDisconnect]_vars

\* SpecNames: the clients use two terminal names, view and reset_all, and
\* also send texts that are not valid messages
NameShapes ==
  {Msg(ty, t, <<>>, "", FALSE) : ty \in {"view", "reset", "kill_process"}, t \in Names}
  \cup {Msg("command", t, <<"a">>, "run", FALSE) : t \in Names}
  \cup {Msg(ty, "t1", <<>>, "", FALSE) : ty \in {"reset_all"} \cup Unparsed}

ClientSendNames(c) == ClientSendOf(c, NameShapes, NamesMsgs)

NamesHandler(c) ==
  \/ Recv(c) \/ Resume(c) \/ Invalid(c) \/ Dispatch(c) \/ Done(c)
  \/ DoReset(c) \/ ResetReply(c) \/ DoResetAll(c) \/ View(c)
  \/ Kill(c) \/ Kill2(c) \/ Kill3(c)
  \/ Cmd(c) \/ Mode(c)
  \/ ExecCheck(c) \/ ExecLoop(c) \/ DoAdd(c) \/ Expect(c) \/ EofDone(c)
  \/ RunReply(c)

NextNames ==
  \/ \E c \in Conns : ClientSendNames(c) \/ NamesHandler(c)
  \/ \E t \in Names : ShellExit(t)

SpecNames == Init /\ [][NextNames]_vars

\* SpecSend: the clients send runs and the three send_* modes to one session
SendShapes ==
  {Msg("command", "t1", <<"a">>, m, FALSE) : m \in SendModes \cup {"run"}}

ClientSendSend(c) == ClientSendOf(c, SendShapes, SendMsgs)

SendHandler(c) ==
  \/ Recv(c) \/ Resume(c) \/ Dispatch(c) \/ Done(c) \/ Cmd(c) \/ Mode(c)
  \/ Send(c) \/ SendReply(c)
  \/ ExecCheck(c) \/ ExecLoop(c) \/ DoAdd(c) \/ Expect(c) \/ EofDone(c)
  \/ RunReply(c)

NextSend ==
  \/ \E c \in Conns : ClientSendSend(c) \/ SendHandler(c)
  \/ ShellExit("t1")

SpecSend == Init /\ [][NextSend]_vars

\* SpecResetAll: the clients view two terminal names (which creates them)
\* and send reset_all, and POST /terminal/reset-all requests arrive.  The
\* coroutine of an HTTP request runs on the same loop; it takes the place of
\* a connection whose own coroutine waits in ws.receive_text().
ResetAllShapes ==
  {Msg("view", t, <<>>, "", FALSE) : t \in Names}
  \cup {Msg("reset_all", "t1", <<>>, "", FALSE)}

ClientSendResetAll(c) == ClientSendOf(c, ResetAllShapes, ResetAllMsgs)

\* the terminals a dict iterator has not visited: todo keeps one entry per
\* key the dict had when the iterator was made, emptied once visited
Unvisited(seq) == {i \in 1..Len(seq) : seq[i] # ""}

\* reset_all_terminals up to its first await: the iterator of
\* terminal_manager.terminals.values() is made
RestStart(c) ==
  /\ pc[c] = "recv"
  /\ owner = 0
  /\ pending[c] = NoMsg
  /\ sent < ResetAllMsgs
  /\ cur' = [cur EXCEPT ![c] =
       [Msg("rest_reset_all", "", <<>>, "", FALSE) EXCEPT !.action_id = sent + 1]]
  /\ sent' = sent + 1
  /\ todo' = [todo EXCEPT ![c] = terminals]
  /\ pc' = [pc EXCEPT ![c] = "rest_reset_all"]
  /\ owner' = c
  /\ UNCHANGED <<termVars, connected, pending, ret, sleepers, stream, cmds, result, item,
                 ghostVars>>
  /\ UNCHANGED auxVars

\* for terminal in terminal_manager.terminals.values(): await terminal.reset()
\* The iterator raises RuntimeError (dictionary changed size during
\* iteration) when the dict has another size than at its making, whether or
\* not values are left; the handler turns every exception into HTTP 500.
RestResetAll(c) ==
  /\ pc[c] = "rest_reset_all"
  /\ IF Len(terminals) # Len(todo[c])
     THEN /\ Reply(c, Frame(c, "http500", RError, "idle"))
          /\ UNCHANGED <<shell, history, is_running, writes, todo>>
     ELSE IF Unvisited(todo[c]) = {}
     THEN /\ Reply(c, Frame(c, "http200", "all terminals reset success", "idle"))
          /\ UNCHANGED <<shell, history, is_running, writes, todo>>
     ELSE LET i == CHOOSE j \in Unvisited(todo[c]) :
                     \A k \in Unvisited(todo[c]) : j <= k
          IN /\ ResetTerminal(c, todo[c][i])
             /\ todo' = [todo EXCEPT ![c][i] = ""]
             /\ Sleep(c, "rest_reset_all")
             /\ UNCHANGED stream
  /\ UNCHANGED <<terminals, clock, connVars, cur, cmds, result, item, killed, busyAtStart, orphan>>
  /\ UNCHANGED auxVars

ResetAllHandler(c) ==
  \/ Recv(c) \/ Resume(c) \/ Dispatch(c) \/ Done(c)
  \/ View(c) \/ DoResetAll(c)
  \/ RestStart(c) \/ RestResetAll(c)

NextResetAll == \E c \in Conns : ClientSendResetAll(c) \/ ResetAllHandler(c)

SpecResetAll == Init /\ [][NextResetAll]_vars

\* ------------------------------------------------------------ get_history
\* Strings are modelled by their lengths.

\* mutant of TruncateTextFromBack: the text is kept whole
TruncateNothing(n, max) == n

\* truncate_text_from_back: the marker and the last max characters
TruncateTextFromBack(n, max) == IF n > max THEN TruncMarkLen + max ELSE n

\* f"{item.pre_prompt} {item.command}\n{truncated_text}" and, once the item is
\* finished, f"\n{item.after_prompt}"
FormatItem(it) ==
  LET text == TruncateTextFromBack(it.text, MaxTextLength) IN
  [kind |-> "item", ts |-> it.ts, text |-> text,
   len |-> PromptLen + 1 + CmdLen + 1 + text
           + IF it.finished THEN 1 + PromptLen ELSE 0]

HistMarker == [kind |-> "marker", ts |-> 0, text |-> 0, len |-> HistMarkLen]
PromptLine == [kind |-> "prompt", ts |-> 0, text |-> 0, len |-> PromptLen]

\* `for item in reversed(self.history)`: the lines collected from item i down,
\* latest first
RECURSIVE CollectHistory(_, _, _)
CollectHistory(h, i, total_length) ==
  IF i = 0 THEN <<>>
  ELSE LET f == FormatItem(h[i]) IN
       IF total_length + f.len > MaxTotalLength THEN <<HistMarker>>
       ELSE <<f>> \o CollectHistory(h, i - 1, total_length + f.len)

Reverse(q) == [i \in 1..Len(q) |-> q[Len(q) + 1 - i]]

\* Terminal.get_history(append_prompt_line, full_history)
GetHistory(h, append_prompt_line, full_history) ==
  IF h = <<>>
  THEN IF full_history
       THEN <<[kind |-> "note", ts |-> 0, text |-> 0, len |-> NoHistoryLen], PromptLine>>
       ELSE <<PromptLine>>
  ELSE IF ~full_history
  THEN LET f == FormatItem(h[Len(h)])
           last == h[Len(h)] IN
       <<[f EXCEPT !.len = PromptLen + 1 + CmdLen + 1 + f.text
                           + IF last.finished /\ append_prompt_line
                             THEN 1 + PromptLen ELSE 0]>>
  ELSE Reverse(CollectHistory(h, Len(h), 0))
       \o IF append_prompt_line /\ h[Len(h)].finished THEN <<PromptLine>> ELSE <<>>

\* SpecView: get_history applied to histories of up to ViewHist entries
TextLens == {10, MaxTextLength - 50, MaxTextLength, MaxTextLength + 1}

ViewItems(ts) == [ts : {ts}, text : TextLens, finished : BOOLEAN]

ViewHistories ==
  UNION {{h \in [1..n -> UNION {ViewItems(i) : i \in 1..n}] :
            \A i \in 1..n : h[i].ts = i} : n \in 0..ViewHist}

InitView ==
  /\ InitTerminals
  /\ InitBrowser
  /\ InitService
  /\ InitManager
  /\ InitNoFile
  /\ arg \in [history : ViewHistories, append_prompt_line : BOOLEAN,
               full_history : BOOLEAN]
  /\ val = NoVal

ApplyGetHistory ==
  /\ val = NoVal
  /\ val' = GetHistory(arg.history, arg.append_prompt_line, arg.full_history)
  /\ val' # NoVal
  /\ UNCHANGED <<terminalVars, arg, browserVars, editorVars, serviceVars, managerVars>>

SpecView == InitView /\ [][ApplyGetHistory]_vars

\* ------------------------------------------------ process_terminal_output
\* A text is a sequence of characters: "E" is ESC (\x1b), "R" is \r, "N" is \n.

Digits == {"0", "1"}

\* text.split(sep): the pieces between the separators, at least one
RECURSIVE SplitOn(_, _)
SplitOn(text, sep) ==
  IF text = <<>> THEN <<<<>>>>
  ELSE LET rest == SplitOn(Tail(text), sep) IN
       IF Head(text) = sep THEN <<<<>>>> \o rest
       ELSE <<<<Head(text)>> \o Head(rest)>> \o Tail(rest)

\* sep.join(parts)
RECURSIVE JoinWith(_, _)
JoinWith(parts, sep) ==
  IF Len(parts) = 1 THEN parts[1]
  ELSE parts[1] \o <<sep>> \o JoinWith(Tail(parts), sep)

\* the number of digits text begins with at position i
RECURSIVE DigitRun(_, _)
DigitRun(text, i) ==
  IF i <= Len(text) /\ text[i] \in Digits THEN 1 + DigitRun(text, i + 1) ELSE 0

\* length of the match of \x1b\[(\d+)G at the head of text, 0 if none
CursorMatch(text) ==
  IF Len(text) >= 4 /\ text[1] = "E" /\ text[2] = "["
  THEN LET d == DigitRun(text, 3) IN
       IF d >= 1 /\ 3 + d <= Len(text) /\ text[3 + d] = "G" THEN 3 + d ELSE 0
  ELSE 0

Drop(text, n) == SubSeq(text, n + 1, Len(text))

\* process_cursor_movements: every match of re.finditer is removed
RECURSIVE ProcessCursorMovements(_)
ProcessCursorMovements(line) ==
  IF line = <<>> THEN <<>>
  ELSE IF CursorMatch(line) > 0
  THEN ProcessCursorMovements(Drop(line, CursorMatch(line)))
  ELSE <<Head(line)>> \o ProcessCursorMovements(Tail(line))

\* the repetitions of (;\d+) at position i: <<length, start of the last one>>
RECURSIVE ColorReps(_, _, _)
ColorReps(text, i, last) ==
  IF i <= Len(text) /\ text[i] = ";" /\ DigitRun(text, i + 1) >= 1
  THEN ColorReps(text, i + 1 + DigitRun(text, i + 1), i)
  ELSE <<i, last>>

\* the match of \x1b\[\d+(;\d+)*m at the head of text: its length (0 if none)
\* and what group 1 captured
ColorMatch(text) ==
  IF Len(text) >= 4 /\ text[1] = "E" /\ text[2] = "[" /\ DigitRun(text, 3) >= 1
  THEN LET r == ColorReps(text, 3 + DigitRun(text, 3), 0)
           end == r[1] IN
       IF end <= Len(text) /\ text[end] = "m"
       THEN [len |-> end,
             group |-> IF r[2] = 0 THEN <<>> ELSE SubSeq(text, r[2], end - 1)]
       ELSE [len |-> 0, group |-> <<>>]
  ELSE [len |-> 0, group |-> <<>>]

\* extract_ansi_colors: re.findall of a pattern with one group returns what
\* the group captured in each match, joined
RECURSIVE ExtractAnsiColors(_)
ExtractAnsiColors(text) ==
  IF text = <<>> THEN <<>>
  ELSE LET m == ColorMatch(text) IN
       IF m.len > 0 THEN m.group \o ExtractAnsiColors(Drop(text, m.len))
       ELSE ExtractAnsiColors(Tail(text))

\* have_matching_ansi_reset: '\x1b[0m' in text or '\x1b[m' in text
HaveMatchingAnsiReset(text) ==
  \E i \in 1..Len(text) :
    \/ i + 3 <= Len(text) /\ SubSeq(text, i, i + 3) = <<"E", "[", "0", "m">>
    \/ i + 2 <= Len(text) /\ SubSeq(text, i, i + 2) = <<"E", "[", "m">>

\* the carriage-return branch: the last part, with the colours of the earlier
\* parts put in front of it one after the other
RECURSIVE PrependColors(_, _, _)
PrependColors(parts, i, processed_line) ==
  IF i > Len(parts) - 1 THEN processed_line
  ELSE LET ansi_colors == ExtractAnsiColors(parts[i]) IN
       PrependColors(parts, i + 1,
         IF ansi_colors # <<>> /\ ~HaveMatchingAnsiReset(parts[Len(parts)])
         THEN ansi_colors \o processed_line ELSE processed_line)

ProcessLine(line) ==
  IF \E i \in 1..Len(line) : line[i] = "R"
  THEN LET parts == SplitOn(line, "R") IN PrependColors(parts, 1, parts[Len(parts)])
  ELSE ProcessCursorMovements(line)

\* process_terminal_output
ProcessTerminalOutput(text) ==
  IF text = <<>> THEN <<>>
  ELSE LET lines == SplitOn(text, "N") IN
       JoinWith([i \in 1..Len(lines) |-> ProcessLine(lines[i])], "N")

\* SpecProcess: process_terminal_output applied to the texts made of up to
\* TextPieces of these pieces
Pieces ==
  {<<"a">>, <<"R">>, <<"N">>, <<"E", "[", "1", "G">>, <<"E", "[">>, <<"1", "G">>,
   <<"E", "[", "1", ";", "0", "m">>, <<"E", "[", "m">>}

RECURSIVE TextsOf(_)
TextsOf(n) ==
  IF n = 0 THEN {<<>>}
  ELSE LET shorter == TextsOf(n - 1) IN
       shorter \cup {t \o q : t \in shorter, q \in Pieces}

InitProcess ==
  /\ InitTerminals
  /\ InitBrowser
  /\ InitService
  /\ InitManager
  /\ InitNoFile
  /\ arg \in TextsOf(TextPieces)
  /\ val = NoVal

ApplyProcess ==
  /\ val = NoVal
  /\ val' = [text |-> ProcessTerminalOutput(arg)]
  /\ UNCHANGED <<terminalVars, arg, browserVars, editorVars, serviceVars, managerVars>>

SpecProcess == InitProcess /\ [][ApplyProcess]_vars

\* SpecHistory: one client that keeps sending `run` messages to one session
HistShapes == {Msg("command", "t1", <<"a">>, "run", FALSE)}

ClientSendHist(c) == ClientSendOf(c, HistShapes, HistClock)

RunHandler(c) ==
  \/ Recv(c) \/ Resume(c) \/ Dispatch(c) \/ Done(c) \/ Cmd(c) \/ Mode(c)
  \/ ExecCheck(c) \/ ExecLoop(c) \/ DoAdd(c) \/ Expect(c) \/ EofDone(c)
  \/ RunReply(c)

NextHistory ==
  \/ ClientSendHist(1)
  \/ RunHandler(1)
  \/ ShellExit("t1")

SpecHistory == Init /\ [][NextHistory]_vars

\* --------------------------------------------------------- browser session
\* A task is a /browser/action request, a /healthz request's initialize task
\* or a call of restart_browser.  bpc is the await the task is suspended in:
\*   init_start     the task created by /healthz has not begun
\*   init_browser   initialize: Browser.create
\*   init_context   initialize: BrowserContext.create
\*   init_goto      initialize: browser_context.goto("about:blank")
\*   wait           execute_action: asyncio.sleep(0.2) of the waiting loop
\*   alive          execute_action: browser_context.ensure_page_alive()
\*   act            execute_action: controller.act(action, browser_context)
\*   update         execute_action: get_session, update_state, take_screenshot,
\*                  upload_screenshots
\*   recreate       recreate_page: browser_context.recreate_page() and goto
\*   closing        restart_browser: browser.close()
\*   closing_ctx    restart_browser: browser_context.close()
\*   restart_shell  restart_browser: run_shell
\* bfrom is the function the task is in: "execute" (execute_action under
\* wait_for), "recreate_in" (recreate_page called by execute_action's handler
\* of PageDeadError), "recreate_to" (recreate_page called by the handler of
\* the timeout), "recreate" (recreate_page called by browser_action's handler
\* of PageDeadError), "restart", "healthz".

InitPcs == {"init_browser", "init_context", "init_goto"}
UnderWaitFor == {"execute", "recreate_in"}
Recreates == {"recreate_in", "recreate_to", "recreate"}

BSet(t, p, f) ==
  /\ bpc' = [bpc EXCEPT ![t] = p]
  /\ bfrom' = [bfrom EXCEPT ![t] = f]

\* the task goes on to the await p in the function f
BGo(t, p, f) == BSet(t, p, f) /\ UNCHANGED <<bresp, bwaited>>

\* the task's request or call has ended and r is the answer
BIdle(t, r) ==
  /\ BSet(t, "idle", "none")
  /\ bresp' = [bresp EXCEPT ![t] = r]
  /\ UNCHANGED bwaited

\* the answer when an exception other than PageDeadError leaves the function
\* f: browser_action's handler of Exception answers "error" unless the
\* exception was raised in its handler of PageDeadError; restart_browser and
\* the task of /healthz answer nobody
Raised(f) ==
  CASE f \in {"execute", "recreate_in", "recreate_to"} -> "error"
    [] f = "recreate" -> "http500"
    [] OTHER -> "none"

\* initialize() up to its first await, called from f: it returns at once when
\* the status is "initializing" or "ready" (the caller goes on with
\* `returned`), else it sets "initializing" and awaits Browser.create
Initialize(t, f, returned) ==
  IF status \in {"initializing", "ready"}
  THEN UNCHANGED status /\ returned
  ELSE status' = "initializing" /\ BGo(t, "init_browser", f)

\* recreate_page() up to its first await, called from f
RecreatePage(t, f) ==
  IF status # "ready"
  THEN Initialize(t, f, BGo(t, "recreate", f))
  ELSE UNCHANGED status /\ BGo(t, "recreate", f)

\* where the caller f of initialize goes on once initialize has returned
Returned(t, f) ==
  CASE f = "execute" -> BGo(t, "alive", f)
    [] f \in Recreates -> BGo(t, "recreate", f)
    [] OTHER -> BIdle(t, "none")

\* POST /browser/action: execute_action up to its first await
StartAction(t) ==
  /\ bpc[t] = "idle" /\ bops < MaxBrowserOps
  /\ bops' = bops + 1
  /\ bresp' = [bresp EXCEPT ![t] = "none"]
  /\ bwaited' = [bwaited EXCEPT ![t] = (status = "initializing")]
  /\ CASE status = "started" ->
            status' = "initializing" /\ BSet(t, "init_browser", "execute")
       [] status # "ready" -> UNCHANGED status /\ BSet(t, "wait", "execute")
       [] OTHER -> UNCHANGED status /\ BSet(t, "alive", "execute")
  /\ UNCHANGED <<browser, browser_context, controller, nonBrowserVars>>

\* GET /healthz: creates the initialize task when the status is "started"
StartHealthz(t) ==
  /\ bpc[t] = "idle" /\ bops < MaxBrowserOps
  /\ status = "started"
  /\ bops' = bops + 1
  /\ bresp' = [bresp EXCEPT ![t] = "none"]
  /\ bwaited' = [bwaited EXCEPT ![t] = FALSE]
  /\ BSet(t, "init_start", "healthz")
  /\ UNCHANGED <<status, browser, browser_context, controller, nonBrowserVars>>

\* the task created by /healthz begins
InitStart(t) ==
  /\ bpc[t] = "init_start"
  /\ Initialize(t, "healthz", BIdle(t, "none"))
  /\ UNCHANGED <<browser, browser_context, controller, bops, nonBrowserVars>>

\* Browser.create has returned
InitBrowserOk(t) ==
  /\ bpc[t] = "init_browser"
  /\ browser' = TRUE
  /\ BGo(t, "init_context", bfrom[t])
  /\ UNCHANGED <<status, browser_context, controller, bops, nonBrowserVars>>

\* BrowserContext.create has returned; Controller.create does not await
InitContextOk(t) ==
  /\ bpc[t] = "init_context"
  /\ browser_context' = TRUE
  /\ controller' = TRUE
  /\ BGo(t, "init_goto", bfrom[t])
  /\ UNCHANGED <<status, browser, bops, nonBrowserVars>>

\* goto has returned: the status becomes "ready" and initialize returns
InitGotoOk(t) ==
  /\ bpc[t] = "init_goto"
  /\ status' = "ready"
  /\ Returned(t, bfrom[t])
  /\ UNCHANGED <<browser, browser_context, controller, bops, nonBrowserVars>>

\* an await of initialize has raised: the status becomes "started" and
\* BrowserDeadError ends the request or the call
InitFail(t) ==
  /\ bpc[t] \in InitPcs
  /\ status' = "started"
  /\ BIdle(t, Raised(bfrom[t]))
  /\ UNCHANGED <<browser, browser_context, controller, bops, nonBrowserVars>>

\* the waiting loop of execute_action finds the status "ready"
Wait(t) ==
  /\ bpc[t] = "wait"
  /\ status = "ready"
  /\ BGo(t, "alive", "execute")
  /\ UNCHANGED <<status, browser, browser_context, controller, bops, nonBrowserVars>>

\* ensure_page_alive has returned: the controller's act is called
AliveOk(t) ==
  /\ bpc[t] = "alive"
  /\ browser_context
  /\ IF controller THEN BGo(t, "act", "execute") ELSE BIdle(t, "error")
  /\ UNCHANGED <<status, browser, browser_context, controller, bops, nonBrowserVars>>

\* ensure_page_alive has raised PageDeadError: browser_action recreates the page
AliveDead(t) ==
  /\ bpc[t] = "alive"
  /\ browser_context
  /\ RecreatePage(t, "recreate")
  /\ UNCHANGED <<browser, browser_context, controller, bops, nonBrowserVars>>

\* ensure_page_alive has raised another exception (browser_context is None
\* included), or the request names no action: the response is an error
AliveError(t) ==
  /\ bpc[t] = "alive"
  /\ BIdle(t, "error")
  /\ UNCHANGED <<status, browser, browser_context, controller, bops, nonBrowserVars>>

\* controller.act has returned
ActOk(t) ==
  /\ bpc[t] = "act"
  /\ BGo(t, "update", "execute")
  /\ UNCHANGED <<status, browser, browser_context, controller, bops, nonBrowserVars>>

\* the calls after act have returned: the response is a success
UpdateOk(t) ==
  /\ bpc[t] = "update"
  /\ BIdle(t, "success")
  /\ UNCHANGED <<status, browser, browser_context, controller, bops, nonBrowserVars>>

\* act or a later call has raised TargetClosedError: execute_action raises
\* PageDeadError and browser_action recreates the page
ActTargetClosed(t) ==
  /\ bpc[t] \in {"act", "update"}
  /\ RecreatePage(t, "recreate")
  /\ UNCHANGED <<browser, browser_context, controller, bops, nonBrowserVars>>

\* act or a later call has raised PageDeadError: execute_action recreates
\* the page and raises again
ActPageDead(t) ==
  /\ bpc[t] \in {"act", "update"}
  /\ RecreatePage(t, "recreate_in")
  /\ UNCHANGED <<browser, browser_context, controller, bops, nonBrowserVars>>

\* act or a later call has raised another exception: the response is an error
ActError(t) ==
  /\ bpc[t] \in {"act", "update"}
  /\ BIdle(t, "error")
  /\ UNCHANGED <<status, browser, browser_context, controller, bops, nonBrowserVars>>

\* mutant of Timeout: browser_action awaits execute_action without wait_for
TimeoutNever(t) ==
  /\ FALSE
  /\ UNCHANGED vars

\* the 60 seconds of asyncio.wait_for are over: execute_action is cancelled
\* at its await (CancelledError is not an Exception, so a cancelled
\* initialize leaves the status as it is) and the page is recreated
Timeout(t) ==
  /\ bpc[t] # "idle"
  /\ bfrom[t] \in UnderWaitFor
  /\ RecreatePage(t, "recreate_to")
  /\ UNCHANGED <<browser, browser_context, controller, bops, nonBrowserVars>>

\* the awaits of recreate_page have returned: after the call under
\* execute_action or under the timeout handler, PageDeadError is raised and
\* browser_action's handler of it calls recreate_page again; after that call
\* the response is an error
RecreateDone(t) ==
  /\ bpc[t] = "recreate"
  /\ browser_context
  /\ IF bfrom[t] \in {"recreate_in", "recreate_to"}
     THEN RecreatePage(t, "recreate")
     ELSE UNCHANGED status /\ BIdle(t, "error")
  /\ UNCHANGED <<browser, browser_context, controller, bops, nonBrowserVars>>

\* an await of recreate_page has raised (browser_context is None included):
\* recreate_page raises PageDeadError, which browser_action's handler of
\* PageDeadError catches unless it was raised in that handler
RecreateFail(t) ==
  /\ bpc[t] = "recreate"
  /\ IF bfrom[t] \in {"recreate_in", "recreate_to"}
     THEN RecreatePage(t, "recreate")
     ELSE UNCHANGED status /\ BIdle(t, "http500")
  /\ UNCHANGED <<browser, browser_context, controller, bops, nonBrowserVars>>

\* restart_browser up to its first await
StartRestart(t) ==
  /\ bpc[t] = "idle" /\ bops < MaxBrowserOps
  /\ bops' = bops + 1
  /\ bresp' = [bresp EXCEPT ![t] = "none"]
  /\ bwaited' = [bwaited EXCEPT ![t] = FALSE]
  /\ BSet(t, IF browser THEN "closing" ELSE "restart_shell", "restart")
  /\ UNCHANGED <<status, browser, browser_context, controller, nonBrowserVars>>

\* browser.close() has returned
CloseOk(t) ==
  /\ bpc[t] = "closing"
  /\ browser' = FALSE
  /\ IF browser_context
     THEN /\ BGo(t, "closing_ctx", "restart")
          /\ UNCHANGED <<status, browser_context, controller>>
     ELSE /\ browser_context' = FALSE
          /\ controller' = FALSE
          /\ status' = "started"
          /\ BGo(t, "restart_shell", "restart")
  /\ UNCHANGED <<bops, nonBrowserVars>>

\* browser_context.close() has returned
CloseCtxOk(t) ==
  /\ bpc[t] = "closing_ctx"
  /\ browser_context' = FALSE
  /\ controller' = FALSE
  /\ status' = "started"
  /\ BGo(t, "restart_shell", "restart")
  /\ UNCHANGED <<browser, bops, nonBrowserVars>>

\* browser.close() or browser_context.close() has raised: logged only
CloseFail(t) ==
  /\ bpc[t] \in {"closing", "closing_ctx"}
  /\ BGo(t, "restart_shell", "restart")
  /\ UNCHANGED <<status, browser, browser_context, controller, bops, nonBrowserVars>>

\* run_shell has returned or raised: restart_browser calls initialize
RestartShell(t) ==
  /\ bpc[t] = "restart_shell"
  /\ Initialize(t, "restart", BIdle(t, "none"))
  /\ UNCHANGED <<browser, browser_context, controller, bops, nonBrowserVars>>

BrowserTask(t) ==
  \/ StartAction(t) \/ StartHealthz(t) \/ StartRestart(t)
  \/ InitStart(t) \/ InitBrowserOk(t) \/ InitContextOk(t) \/ InitGotoOk(t)
  \/ InitFail(t)
  \/ Wait(t) \/ AliveOk(t) \/ AliveDead(t) \/ AliveError(t)
  \/ ActOk(t) \/ UpdateOk(t) \/ ActTargetClosed(t) \/ ActPageDead(t)
  \/ ActError(t) \/ Timeout(t) \/ RecreateDone(t) \/ RecreateFail(t)
  \/ CloseOk(t) \/ CloseCtxOk(t) \/ CloseFail(t) \/ RestartShell(t)

NextBrowser == \E t \in Tasks : BrowserTask(t)

SpecBrowser == Init /\ [][NextBrowser]_vars

\* SpecBrowserFair: every await of a task returns or raises in the end, and
\* the timer of asyncio.wait_for fires when the request has not ended
FairTask(t) == BrowserTask(t) /\ bops' <= FairOps

NextBrowserFair == \E t \in Tasks : FairTask(t)

SpecBrowserFair ==
  Init /\ [][NextBrowserFair]_vars /\ \A t \in Tasks : WF_vars(FairTask(t))

\* ------------------------------------------------------------- text editor
\* app/tools/text_editor.py behind POST /text_editor.  A text is a sequence of
\* characters: "N" is \n, "T" is \t, " " a space.  The file system is the one
\* path the requests name: fkind says what is there ("absent", "file" or
\* "dir") and fcontent is the content of the file.

EdAlphabet == {"a", "b"}

\* the texts over EdAlphabet of length at most n
RECURSIVE EdStrings(_)
EdStrings(n) ==
  IF n = 0 THEN {<<>>}
  ELSE EdStrings(n - 1) \cup
       {<<x>> \o s : x \in EdAlphabet, s \in {u \in EdStrings(n - 1) : Len(u) = n - 1}}

\* the texts with tabs and newlines that the files and the requests hold
EdLayouts ==
  {<<"T", "a">>, <<"a", "T", "b">>, <<"a", "N", "b">>, <<"a", "N">>,
   <<"N", "a", "b", "T", "N", "b">>}

NoInfo == [has |-> FALSE, content |-> <<>>, has_old |-> FALSE, old_content |-> <<>>]

\* FileInfo(path, content, old_content)
FileInfo(content, has_old, old_content) ==
  [has |-> TRUE, content |-> content, has_old |-> has_old,
   old_content |-> IF has_old THEN old_content ELSE <<>>]

\* ToolResult(output, file_info): the output is its kind, the reason of an
\* error, the count it names and the lines it carries
ToolResult(kind, why, count, lines, info) ==
  [kind |-> kind, why |-> why, count |-> count, lines |-> lines, file_info |-> info]

\* raise ToolError(why), as run_action hands it back:
\* ToolResult(output=f"Error: {e.message}")
ToolErrorResult(why) == ToolResult("error", why, 0, <<>>, NoInfo)

\* the st_size a directory can have
DirSizes == {0, 4096}

\* validate_path: "ok" or the ToolError it raises
ValidatePath(command, kind, size) ==
  IF kind = "absent"
  THEN IF command # "create" /\ command # "write" THEN "not_exist" ELSE "ok"
  ELSE IF command = "create" /\ (kind = "file" \/ size > 0) THEN "exists"
  ELSE IF command \in {"view_dir", "find_file"} /\ kind # "dir" THEN "not_dir"
  ELSE IF command \notin {"move", "delete"} /\ kind = "dir" THEN "is_dir"
  ELSE "ok"

\* what run_action leaves behind: the path's kind and content, and its result
Outcome(kind, content, res) == [fkind |-> kind, fcontent |-> content, res |-> res]

\* mutant of WriteFile: the content always gets a newline at its end
WriteFileNewline(kind, old, text, append, trailing_newline, leading_newline) ==
  Outcome("file", text \o <<"N">>,
          ToolResult(IF append THEN "updated" ELSE "created", "", 0, <<>>,
                     FileInfo(text \o <<"N">>, append, <<>>)))

\* write_file(path, content, sudo, append, trailing_newline, leading_newline)
\* on a path that is absent or a file
WriteFile(kind, old, text, append, trailing_newline, leading_newline) ==
  LET c1 == IF leading_newline /\ ~(text # <<>> /\ Head(text) = "N")
            THEN <<"N">> \o text ELSE text
      c2 == IF trailing_newline /\ ~(c1 # <<>> /\ c1[Len(c1)] = "N")
            THEN c1 \o <<"N">> ELSE c1
      appending == kind = "file" /\ append
      old_content == IF appending THEN old ELSE <<>>
      content == IF appending THEN old \o c2 ELSE c2
  IN Outcome("file", content,
             ToolResult(IF append THEN "updated" ELSE "created", "", 0, <<>>,
                        FileInfo(content, append, old_content)))

\* str.expandtabs(4) from column col on
RECURSIVE ExpandTabs(_, _)
ExpandTabs(text, col) ==
  IF text = <<>> THEN <<>>
  ELSE IF Head(text) = "T"
  THEN LET n == TabSize - (col % TabSize) IN
       [i \in 1..n |-> " "] \o ExpandTabs(Tail(text), col + n)
  ELSE <<Head(text)>> \o
       ExpandTabs(Tail(text), IF Head(text) = "N" THEN 0 ELSE col + 1)

\* maybe_truncate(content, truncate_after)
MaybeTruncate(content, truncate_after) ==
  IF Len(content) <= truncate_after THEN content
  ELSE (IF truncate_after >= 0
        THEN SubSeq(content, 1, truncate_after)
        ELSE SubSeq(content, 1, Len(content) + truncate_after)) \o <<"M">>

\* the loop of _make_output: the lines kept from line i on, `current`
\* characters being kept already
RECURSIVE KeepLines(_, _, _, _)
KeepLines(lines, i, current, max) ==
  IF i > Len(lines) \/ current + Len(lines[i]) + 1 > max THEN <<>>
  ELSE <<lines[i]>> \o KeepLines(lines, i + 1, current + Len(lines[i]) + 1, max)

\* _make_output(file_content, path, 1, True): the lines under the header; line
\* i is shown behind the number i
MakeOutput(file_content) ==
  LET expanded == ExpandTabs(file_content, 0)
      lines == SplitOn(expanded, "N")
      max == MaxResponseLen - (HeaderLen + PathLen) - TruncatedMessageLen
               - LineWidth * Len(lines)
      parts == KeepLines(lines, 1, 0, max)
      shown == IF Len(expanded) > max
               THEN MaybeTruncate(IF parts = <<>> THEN <<>> ELSE JoinWith(parts, "N"),
                                  max)
               ELSE expanded
  IN SplitOn(shown, "N")

\* view(path, view_range, sudo) of a file
ViewFile(content, view_range) ==
  LET lines == SplitOn(content, "N")
      Min(x, y) == IF x < y THEN x ELSE y
      Max(x, y) == IF x > y THEN x ELSE y
      start == Max(1, Min(view_range[1], Len(lines))) - 1
      end == Max(start + 1, Min(view_range[2], Len(lines)))
      file_content == IF Len(view_range) = 2
                      THEN JoinWith(SubSeq(lines, start + 1, end), "N")
                      ELSE content
  IN Outcome("file", content,
             ToolResult("view", "", 0, MakeOutput(file_content),
                        FileInfo(file_content, FALSE, <<>>)))

\* text begins with pat
StartsWith(text, pat) ==
  Len(pat) <= Len(text) /\ SubSeq(text, 1, Len(pat)) = pat

\* mutant of Replace: only the first occurrence is replaced
ReplaceFirst(text, old, new) ==
  LET RECURSIVE First(_)
      First(t) ==
        IF Len(t) < Len(old) THEN t
        ELSE IF StartsWith(t, old) THEN new \o Drop(t, Len(old))
        ELSE <<Head(t)>> \o First(Tail(t))
  IN First(text)

\* mutant of Replace: the search goes on one character behind the start of
\* an occurrence, not behind its end
ReplaceOverlapping(text, old, new) ==
  LET RECURSIVE All(_)
      All(t) ==
        IF Len(t) < Len(old) THEN t
        ELSE IF StartsWith(t, old) THEN new \o All(Tail(t))
        ELSE <<Head(t)>> \o All(Tail(t))
  IN All(text)

\* text.replace(old, new) for a non-empty old: the occurrences are taken from
\* the left and do not overlap
Replace(text, old, new) ==
  LET RECURSIVE All(_)
      All(t) ==
        IF Len(t) < Len(old) THEN t
        ELSE IF StartsWith(t, old) THEN new \o All(Drop(t, Len(old)))
        ELSE <<Head(t)>> \o All(Tail(t))
  IN All(text)

\* text.count(old) for a non-empty old
Count(text, old) ==
  LET RECURSIVE Cnt(_)
      Cnt(t) ==
        IF Len(t) < Len(old) THEN 0
        ELSE IF StartsWith(t, old) THEN 1 + Cnt(Drop(t, Len(old)))
        ELSE Cnt(Tail(t))
  IN Cnt(text)

\* old in text
Occurs(text, old) == \E i \in 0..(Len(text) - Len(old)) : StartsWith(Drop(text, i), old)

\* str_replace(path, old_str, new_str, sudo) on a file
StrReplace(content, old_str, new_str) ==
  IF old_str = <<>> THEN Outcome("file", content, ToolErrorResult("empty_old_str"))
  ELSE IF ~Occurs(content, old_str)
  THEN Outcome("file", content,
               ToolResult("warning", "", 0, <<>>, FileInfo(content, FALSE, <<>>)))
  ELSE LET new_content == Replace(content, old_str, new_str) IN
       Outcome("file", new_content,
               ToolResult("replaced", "", Count(content, old_str), <<>>,
                          FileInfo(new_content, TRUE, content)))

\* the lines grep reads: a newline at the end of the file ends the last line
GrepLines(content) ==
  LET lines == SplitOn(content, "N") IN
  IF lines[Len(lines)] = <<>> THEN SubSeq(lines, 1, Len(lines) - 1) ELSE lines

\* find_content(path, regex, sudo) on a file, for a regex without special
\* characters: grep -n prints the lines the text occurs in
FindContent(content, regex) ==
  IF regex = <<>> THEN Outcome("file", content, ToolErrorResult("empty_regex"))
  ELSE LET results == SelectSeq(GrepLines(content), LAMBDA l : Occurs(l, regex)) IN
       Outcome("file", content,
               ToolResult(IF results = <<>> THEN "nomatch" ELSE "found", "",
                          Len(results), results, FileInfo(content, FALSE, <<>>)))

\* the files under a directory, as `find | sort` prints them
DirListing == <<<<"a">>, <<"b">>>>

\* find_file(path, glob_pattern) on a directory: the glob is "*" (None and ""
\* included) or a file name
FindFile(glob) ==
  LET files == SelectSeq(DirListing, LAMBDA f : glob \in {<<>>, <<"*">>} \/ f = glob) IN
  Outcome("dir", <<>>,
          ToolResult(IF files = <<>> THEN "nomatch" ELSE "found", "", Len(files),
                     files, NoInfo))

\* view_dir(path): the listing of ls -la
ViewDir == Outcome("dir", <<>>, ToolResult("listing", "", 0, DirListing, NoInfo))

\* the fields of TextEditorAction a request leaves out
NoArgs ==
  [file_text |-> <<>>, append |-> FALSE, trailing_newline |-> FALSE,
   leading_newline |-> FALSE, old_str |-> <<>>, new_str |-> <<>>,
   view_range |-> <<>>, glob |-> <<>>, regex |-> <<>>]

\* run_action(action) when the path is of the given kind and content (size is
\* the st_size of a directory): a ToolError ends as a result like the others
RunAction(command, a, kind, content, size) ==
  LET valid == ValidatePath(command, kind,
                            IF kind = "file" THEN Len(content) ELSE size) IN
  IF valid # "ok" THEN Outcome(kind, content, ToolErrorResult(valid))
  ELSE CASE command = "view_dir" -> ViewDir
         [] command = "view" -> ViewFile(content, a.view_range)
         [] command = "create" ->
              WriteFile(kind, content, a.file_text, FALSE, FALSE, FALSE)
         [] command = "write" ->
              WriteFile(kind, content, a.file_text, a.append, a.trailing_newline,
                        a.leading_newline)
         [] command = "str_replace" -> StrReplace(content, a.old_str, a.new_str)
         [] command = "find_content" -> FindContent(content, a.regex)
         [] command = "find_file" -> FindFile(a.glob)
         [] OTHER -> Outcome(kind, content, ToolErrorResult("unrecognized"))

\* text_editor_endpoint: run_action raises nothing and its output is never
\* empty, so the response is always the success response
TextEditorEndpoint(res) == [status |-> "success", result |-> res]

\* POST /text_editor with the command and the fields a
EdRequest(command, a) ==
  /\ Len(elog) < MaxEdOps
  /\ \E size \in DirSizes :
       LET o == RunAction(command, a, fkind, fcontent, size) IN
       /\ fkind' = o.fkind
       /\ fcontent' = o.fcontent
       /\ elog' = Append(elog, [command |-> command, a |-> a, kind |-> fkind,
                                before |-> fcontent, after |-> o.fcontent,
                                resp |-> TextEditorEndpoint(o.res)])
  /\ UNCHANGED <<terminalVars, arg, val, browserVars, serviceVars, managerVars>>

\* the texts the requests carry
FileTexts == EdStrings(1) \cup EdLayouts
Needles == EdStrings(MaxNeedle)
ViewRanges == {<<>>, <<1, 1>>, <<2, 5>>, <<0, 0>>, <<1>>}

EdCreate == \E x \in FileTexts : EdRequest("create", [NoArgs EXCEPT !.file_text = x])

EdWrite ==
  \E x \in FileTexts, ap, tr, le \in BOOLEAN :
    EdRequest("write", [NoArgs EXCEPT !.file_text = x, !.append = ap,
                                      !.trailing_newline = tr, !.leading_newline = le])

EdView == \E r \in ViewRanges : EdRequest("view", [NoArgs EXCEPT !.view_range = r])

EdStrReplace ==
  \E x, y \in Needles :
    EdRequest("str_replace", [NoArgs EXCEPT !.old_str = x, !.new_str = y])

EdFindContent ==
  \E x \in EdStrings(1) : EdRequest("find_content", [NoArgs EXCEPT !.regex = x])

EdFindFile ==
  \E g \in {<<>>, <<"*">>, <<"a">>} : EdRequest("find_file", [NoArgs EXCEPT !.glob = g])

NextEditor ==
  \/ EdCreate \/ EdWrite \/ EdView \/ EdStrReplace \/ EdFindContent \/ EdFindFile

\* the files the path can hold when the first request arrives
InitFiles == EdStrings(MaxContent) \cup EdLayouts

InitEditor ==
  /\ InitTerminals
  /\ InitBrowser
  /\ InitService
  /\ InitManager
  /\ arg = NoArg
  /\ val = NoVal
  /\ \/ fkind \in {"absent", "dir"} /\ fcontent = <<>>
     \/ fkind = "file" /\ fcontent \in InitFiles
  /\ elog = <<>>

SpecEditor == InitEditor /\ [][NextEditor]_vars

\* _make_output by lengths.  A file is a sequence of runs [n, len]: n lines of
\* len characters each (no tab), the lines of the file joined by newlines.

\* the number of lines of the runs
RunLines(runs) ==
  LET RECURSIVE Sum(_)
      Sum(i) == IF i = 0 THEN 0 ELSE runs[i].n + Sum(i - 1)
  IN Sum(Len(runs))

\* the characters of the runs' lines, a newline behind each
RunChars(runs) ==
  LET RECURSIVE Sum(_)
      Sum(i) == IF i = 0 THEN 0 ELSE runs[i].n * (runs[i].len + 1) + Sum(i - 1)
  IN Sum(Len(runs))

\* the loop of _make_output over the runs from run i on: a line is kept while
\* current + len(line) + 1 <= max, and the loop ends at the first line that
\* is not
RECURSIVE KeepRuns(_, _, _, _)
KeepRuns(runs, i, current, max) ==
  IF i > Len(runs) THEN <<>>
  ELSE LET room == max - current
           fit == IF room < 0 THEN 0 ELSE room \div (runs[i].len + 1)
           k == IF fit < runs[i].n THEN fit ELSE runs[i].n
       IN IF k < runs[i].n
          THEN IF k = 0 THEN <<>> ELSE <<[n |-> k, len |-> runs[i].len]>>
          ELSE <<runs[i]>> \o KeepRuns(runs, i + 1, current + k * (runs[i].len + 1), max)

\* len(_make_output(file_content, path, 1, True))
MakeOutputLen(runs) ==
  LET content_len == RunChars(runs) - 1
      max == MaxResponseLen - (HeaderLen + PathLen) - TruncatedMessageLen
               - LineWidth * RunLines(runs)
      parts == KeepRuns(runs, 1, 0, max)
      parts_len == IF parts = <<>> THEN 0 ELSE RunChars(parts) - 1
      \* maybe_truncate(file_content, max_content_length): the kept lines are
      \* one line less when none is kept and they are cut to below zero
      clipped == parts_len > max
      cut_len == IF max >= 0 THEN max ELSE IF parts_len + max > 0 THEN parts_len + max ELSE 0
  IN IF content_len <= max
     THEN HeaderLen + PathLen + RunChars(runs) + NumberLen * RunLines(runs) - 1
     ELSE IF clipped
     THEN HeaderLen + PathLen + NumberLen + cut_len + TruncatedMessageLen
     ELSE IF parts = <<>>
     THEN HeaderLen + PathLen + NumberLen
     ELSE HeaderLen + PathLen + RunChars(parts) + NumberLen * RunLines(parts) - 1

\* the files whose view is measured: one or two runs of lines
LineCounts == {1, 1000, ManyLines, 2000}
LineLens == {0, 8, MaxResponseLen}
FileRuns ==
  LET R == [n : LineCounts, len : LineLens] IN
  {<<r>> : r \in R} \cup {<<r, s>> : r \in R, s \in R}

InitOutput ==
  /\ InitTerminals
  /\ InitBrowser
  /\ InitService
  /\ InitManager
  /\ InitNoFile
  /\ arg \in FileRuns
  /\ val = NoVal

ApplyMakeOutput ==
  /\ val = NoVal
  /\ val' = [out |-> MakeOutputLen(arg)]
  /\ UNCHANGED <<terminalVars, arg, browserVars, editorVars, serviceVars, managerVars>>

SpecOutput == InitOutput /\ [][ApplyMakeOutput]_vars

\* ---------------------------------------------- file and sandbox endpoints
\* The handlers of /file/upload, /file/multipart_upload, /file and
\* /init-sandbox await nothing that suspends them (the coroutines of
\* local_storage.py contain no await), so each request is one step.

\* f with the file k written (created, or replaced)
Put(f, k, v) == [x \in DOMAIN f \cup {k} |-> IF x = k THEN v ELSE f[x]]

Bytes == {"x", "y"}
RECURSIVE BytesUpTo(_)
BytesUpTo(n) ==
  IF n = 0 THEN {<<>>}
  ELSE BytesUpTo(n - 1)
       \cup {Append(d, b) : d \in {e \in BytesUpTo(n - 1) : Len(e) = n - 1}, b \in Bytes}

\* what cmd.file_path can name: nothing, a directory, or a file
UserFiles ==
  {[name |-> "f", kind |-> k, data |-> <<>>] : k \in {"absent", "dir"}}
  \cup {[name |-> "f", kind |-> "file", data |-> d] : d \in BytesUpTo(MaxFile)}
  \cup {[name |-> "g", kind |-> "file", data |-> <<"y">>]}
NoFile == [name |-> "", kind |-> "absent", data |-> <<>>]

\* get_unique_filename(filename) at second t: f"{name}_{timestamp}{ext}"
get_unique_filename(filename, t) == <<filename, t>>

\* the path of a part file: temp_dir (named by the second), filename, number
PartPath(t, filename, part_number) == <<t, filename, part_number>>

\* TimedRoute.custom_route_handler: the response of a handler that returned
\* gets the X-Process-Time header; an exception is logged and raised again,
\* and the response FastAPI builds from it has no such header
TimedRoute(kind, code) == [code |-> code, timed |-> kind = "return"]

\* one more request, with its response, in the log
Served(op, file, part_size, secrets, resp, body, ref, out, parts) ==
  slog' = Append(slog,
    [op |-> op, file |-> file, part_size |-> part_size, secrets |-> secrets,
     code |-> resp.code, timed |-> resp.timed, body |-> body, ref |-> ref,
     out |-> out, parts |-> parts, at |-> now])

\* POST /file/upload
UploadFile(file) ==
  /\ Len(slog) < MaxUploads
  /\ IF file.kind = "absent"
     THEN /\ Served("upload", file, 0, <<>>, TimedRoute("raise", 404), "none", <<>>, <<>>, <<>>)
          /\ UNCHANGED storage
     ELSE IF file.kind = "dir"
     THEN /\ Served("upload", file, 0, <<>>, TimedRoute("raise", 400), "none", <<>>, <<>>, <<>>)
          /\ UNCHANGED storage
     ELSE IF Len(file.data) > MultipartThreshold
     THEN /\ Served("upload", file, 0, <<>>, TimedRoute("return", 200),
                    "requires_multipart", <<>>, <<>>, <<>>)
          /\ UNCHANGED storage
     ELSE \* upload_to_local_storage(content, file_name, content_type)
          LET unique_filename == get_unique_filename(file.name, now) IN
          /\ storage' = Put(storage, unique_filename, file.data)
          /\ Served("upload", file, 0, <<>>, TimedRoute("return", 200), "success",
                    unique_filename, file.data, <<>>)
  /\ UNCHANGED <<partfiles, secretfiles, now>>
  /\ UNCHANGED <<terminalVars, arg, val, browserVars, editorVars, managerVars>>

\* handle_multipart_upload: the number of parts
PartCount(file_size, part_size) == (file_size + part_size - 1) \div part_size

\* f.seek(start_pos); f.read(end_pos - start_pos)
ReadPart(data, part_number, part_size) ==
  LET start_pos == (part_number - 1) * part_size
      end_pos == IF start_pos + part_size < Len(data)
                 THEN start_pos + part_size ELSE Len(data)
  IN SubSeq(data, start_pos + 1, end_pos)

\* sorted(parts, key=lambda x: x.part_number)
RECURSIVE SortedParts(_)
SortedParts(parts) ==
  IF parts = <<>> THEN <<>>
  ELSE LET least == CHOOSE i \in 1..Len(parts) :
                      \A j \in 1..Len(parts) :
                        \/ parts[i].part_number < parts[j].part_number
                        \/ parts[i].part_number = parts[j].part_number /\ i <= j
       IN <<parts[least]>>
            \o SortedParts(SubSeq(parts, 1, least - 1)
                             \o SubSeq(parts, least + 1, Len(parts)))

RECURSIVE Concat(_, _)
Concat(files, parts) ==
  IF parts = <<>> THEN <<>>
  ELSE files[Head(parts).etag] \o Concat(files, Tail(parts))

\* mutant of CombineParts: the parts are copied in the order of the list
CombineUnsorted(files, parts) == Concat(files, parts)

\* combine_parts: the bytes written to the target
CombineParts(files, parts) == Concat(files, SortedParts(parts))

\* POST /file/multipart_upload; fail is the part whose write fails, 0 if none
MultipartUpload(file, part_size, fail) ==
  /\ Len(slog) < MaxUploads
  /\ IF file.kind = "absent"
     THEN /\ Served("multipart", file, part_size, <<>>, TimedRoute("raise", 404),
                    "none", <<>>, <<>>, <<>>)
          /\ UNCHANGED <<storage, partfiles>>
     ELSE IF file.kind = "dir"
     THEN /\ Served("multipart", file, part_size, <<>>, TimedRoute("raise", 400),
                    "none", <<>>, <<>>, <<>>)
          /\ UNCHANGED <<storage, partfiles>>
     ELSE IF part_size = 0
     THEN \* math.ceil(file_size / cmd.part_size): ZeroDivisionError
          /\ Served("multipart", file, part_size, <<>>, TimedRoute("raise", 500),
                    "none", <<>>, <<>>, <<>>)
          /\ UNCHANGED <<storage, partfiles>>
     ELSE LET part_count == PartCount(Len(file.data), part_size)
              results == [n \in 1..part_count |->
                            [part_number |-> n, success |-> n # fail,
                             etag |-> IF n # fail THEN PartPath(now, file.name, n)
                                      ELSE <<>>]]
              written == {n \in 1..part_count : n # fail}
              files == [x \in DOMAIN partfiles
                                \cup {PartPath(now, file.name, n) : n \in written} |->
                          IF x[1] = now /\ x[2] = file.name /\ x[3] \in written
                          THEN ReadPart(file.data, x[3], part_size)
                          ELSE partfiles[x]]
              failed == Cardinality({n \in 1..part_count : ~results[n].success})
              final_path == get_unique_filename(file.name, now)
              combined == CombineParts(files, results)
          IN /\ partfiles' = files
             /\ IF failed = 0
                THEN /\ storage' = Put(storage, final_path, combined)
                     /\ Served("multipart", file, part_size, <<>>,
                               TimedRoute("return", 200), "success", final_path,
                               combined, results)
                ELSE /\ UNCHANGED storage
                     /\ Served("multipart", file, part_size, <<>>,
                               TimedRoute("return", 200), "partial_success", <<>>,
                               <<>>, results)
  /\ UNCHANGED <<secretfiles, now>>
  /\ UNCHANGED <<terminalVars, arg, val, browserVars, editorVars, managerVars>>

\* GET /file: the HTTPException of a missing file is caught by the handler's
\* own `except Exception` and raised again with status 500
GetFile(file) ==
  /\ Len(slog) < MaxUploads
  /\ IF file.kind = "file"
     THEN Served("get_file", file, 0, <<>>, TimedRoute("return", 200), "file", <<>>,
                 file.data, <<>>)
     ELSE Served("get_file", file, 0, <<>>, TimedRoute("raise", 500), "none", <<>>,
                 <<>>, <<>>)
  /\ UNCHANGED <<storage, partfiles, secretfiles, now>>
  /\ UNCHANGED <<terminalVars, arg, val, browserVars, editorVars, managerVars>>

\* a second passes
Tick ==
  /\ now < MaxNow
  /\ now' = now + 1
  /\ UNCHANGED <<storage, partfiles, secretfiles, slog>>
  /\ UNCHANGED <<terminalVars, arg, val, browserVars, editorVars, managerVars>>

PartSizes == 0..MaxPartSize

NextStorage ==
  \/ Tick
  \/ \E file \in UserFiles : UploadFile(file)
  \/ \E file \in UserFiles, part_size \in PartSizes, fail \in 0..1 :
       MultipartUpload(file, part_size, fail)
  \/ \E file \in UserFiles : GetFile(file)

SpecStorage == Init /\ [][NextStorage]_vars

\* the secret files: the file of key k, and its backup of second t
SecretFile(k) == <<k>>
BackupFile(k, t) == <<k, t>>

\* POST /init-sandbox with HOME set
InitSandbox(secrets) ==
  LET keys == DOMAIN secrets
      \* the keys whose file exists with a different content
      renamed == {k \in keys : /\ SecretFile(k) \in DOMAIN secretfiles
                               /\ secretfiles[SecretFile(k)] # secrets[k]}
  IN /\ Len(slog) < MaxSecretCalls
     /\ secretfiles' =
          [x \in DOMAIN secretfiles \cup {SecretFile(k) : k \in keys}
                   \cup {BackupFile(k, now) : k \in renamed} |->
             IF Len(x) = 1 /\ x[1] \in keys THEN secrets[x[1]]
             ELSE IF Len(x) = 2 /\ x[1] \in renamed /\ x[2] = now
             THEN secretfiles[SecretFile(x[1])]
             ELSE secretfiles[x]]
     /\ Served("init_sandbox", NoFile, 0, secrets, TimedRoute("return", 200), "ok",
               <<>>, <<>>, <<>>)
     /\ UNCHANGED <<storage, partfiles, now>>
     /\ UNCHANGED <<terminalVars, arg, val, browserVars, editorVars, managerVars>>

SecretKeys == {"k1", "k2"}
SecretValues == {"a", "b", "c"}
SecretMaps ==
  UNION {[K -> SecretValues] : K \in SUBSET SecretKeys \ {{}}}

NextSecrets ==
  \/ Tick
  \/ \E secrets \in SecretMaps : InitSandbox(secrets)

SpecSecrets == Init /\ [][NextSecrets]_vars

\* ------------------------------------------------------------- /zip-file
\* A node of a directory tree is a file or a directory; the items of a
\* directory are a function from the names in it to nodes.
FileNode == [kind |-> "file", items |-> <<>>]
DirNode(items) == [kind |-> "dir", items |-> items]
AbsentNode == [kind |-> "absent", items |-> <<>>]

\* the files and the directories of at most d levels with names of a set
RECURSIVE Nodes(_, _)
Nodes(names, d) ==
  IF d = 0 THEN {FileNode}
  ELSE {FileNode}
       \cup {DirNode(f) : f \in UNION {[K -> Nodes(names, d - 1)] : K \in SUBSET names}}

\* a directory with the items that are there
DirOf(all) == DirNode([n \in {m \in DOMAIN all : all[m].kind # "absent"} |-> all[n]])

\* the directories a request names
ZipTrees ==
  {AbsentNode, FileNode}
  \cup {DirOf([n \in {"a", ".git", "dist", "index.html"} |->
                  CASE n = "a" -> a
                    [] n = ".git" -> g
                    [] n = "dist" -> d
                    [] OTHER -> i]) :
          a \in Nodes({"a", "node_modules"}, MaxDepth) \cup {AbsentNode},
          g \in Nodes({"a"}, 1) \cup {AbsentNode},
          d \in Nodes({"index.html", "a"}, 1) \cup {AbsentNode},
          i \in {FileNode, AbsentNode}}

\* create_zip_archive: exclude_patterns
ExcludePatterns == {"node_modules", ".next", ".open-next", ".turbo", ".wrangler", ".git"}

\* shutil.copytree(s, d, ignore=lambda x, y: ignores)
RECURSIVE CopyTree(_)
CopyTree(node) ==
  IF node.kind = "file" THEN node
  ELSE DirNode([n \in DOMAIN node.items \ ExcludePatterns |-> CopyTree(node.items[n])])

\* copy_files(src, dst) of create_zip_archive
CopyFiles(node) ==
  DirNode([n \in DOMAIN node.items \ ExcludePatterns |->
             IF node.items[n].kind = "dir"
             THEN CopyTree(node.items[n]) ELSE node.items[n]])

\* create_zip_archive(source_dir, output_zip): the archive, if one is made
create_zip_archive(node) ==
  IF node.kind # "dir" THEN [success |-> FALSE, archive |-> AbsentNode]
  ELSE [success |-> TRUE, archive |-> CopyFiles(node)]

ZipError == [status |-> "error", archive |-> AbsentNode]

\* zip_file(request)
ZipFile(directory, project_type) ==
  IF directory.kind = "absent" THEN ZipError
  ELSE LET dist_exists == directory.kind = "dir" /\ "dist" \in DOMAIN directory.items
           source_dir == IF dist_exists THEN directory.items["dist"] ELSE directory
           index_exists == source_dir.kind = "dir" /\ "index.html" \in DOMAIN source_dir.items
           \* the temporary structure of a frontend project: public/ with a
           \* copy of the build files, and wrangler.toml
           temp_base_dir ==
             DirNode([n \in {"public", "wrangler.toml"} |->
                        IF n = "public" THEN source_dir ELSE FileNode])
           zipped == IF project_type = "frontend" THEN temp_base_dir ELSE directory
           made == create_zip_archive(zipped)
       IN IF project_type = "frontend" /\ ~index_exists THEN ZipError
          ELSE IF ~made.success THEN ZipError
          ELSE [status |-> "success", archive |-> made.archive]

ProjectTypes == {"frontend", "backend", "nextjs"}

InitZip ==
  /\ InitTerminals
  /\ InitBrowser
  /\ InitNoFile
  /\ InitService
  /\ InitManager
  /\ arg \in [directory : ZipTrees, project_type : ProjectTypes]
  /\ val = NoVal

ApplyZipFile ==
  /\ val = NoVal
  /\ val' = ZipFile(arg.directory, arg.project_type)
  /\ UNCHANGED <<terminalVars, arg, browserVars, editorVars, serviceVars, managerVars>>

SpecZip == InitZip /\ [][ApplyZipFile]_vars

\* ------------------------------------------- the message manager, acting
\* add_state_message(state, result, step_info, use_vision): result_chars is
\* the length of the extracted content of a result kept in memory (0: no
\* such result), chars the length of the text of the state message, image
\* whether it carries a screenshot
AddStateMessage(result_chars, chars, image) ==
  LET memory == IF result_chars > 0
                THEN <<ManagedMessage("human", 15 + result_chars, FALSE, 0)>>
                ELSE <<>>
      new == memory \o <<ManagedMessage("human", chars, image, added + 1)>>
  IN /\ added < MaxSteps
     /\ messages' = messages \o new
     /\ current_tokens' = current_tokens + TokensOf(new)
     /\ added' = added + 1
     /\ UNCHANGED <<terminalVars, arg, val, browserVars, editorVars, serviceVars>>

\* MessageHistory.remove_message(), as _remove_last_state_message calls it
RemoveLastStateMessage(ms) ==
  IF Len(ms) > 2 /\ ms[Len(ms)].type = "human" THEN SubSeq(ms, 1, Len(ms) - 1) ELSE ms

\* cut_messages(): the history it leaves (it may leave by an exception: a
\* ValueError when more than 99% of the last message would go, a
\* ZeroDivisionError when the last message has no tokens)
CutMessages ==
  LET diff == current_tokens - MaxInputTokens
      msg == messages[Len(messages)]
      \* the image of the last message is removed first
      stripped == [msg EXCEPT !.image = FALSE,
                              !.tokens = IF msg.image THEN @ - ImageTokens ELSE @]
      diff2 == IF msg.image THEN diff - ImageTokens ELSE diff
      kept == SubSeq(messages, 1, Len(messages) - 1) \o <<stripped>>
      \* int(len(content) * proportion_to_remove), the product taken in two
      \* halves to stay within 32 bits
      characters_to_remove ==
        (stripped.chars \div stripped.tokens) * diff2
          + ((stripped.chars % stripped.tokens) * diff2) \div stripped.tokens
      content == IF characters_to_remove = 0 THEN 0
                 ELSE IF characters_to_remove < stripped.chars
                 THEN stripped.chars - characters_to_remove ELSE 0
      cut == RemoveLastStateMessage(kept)
               \o <<ManagedMessage("human", content, FALSE, stripped.step)>>
  IN /\ diff > 0
     /\ IF diff2 <= 0 \/ stripped.tokens = 0 \/ 100 * diff2 > 99 * stripped.tokens
        THEN /\ messages' = kept
             /\ current_tokens' = TokensOf(kept)
        ELSE /\ messages' = cut
             /\ current_tokens' = TokensOf(cut)
     /\ UNCHANGED added
     /\ UNCHANGED <<terminalVars, arg, val, browserVars, editorVars, serviceVars>>

ResultChars == {0, 150}
StateChars == {300, 200000, 390000}

NextManager ==
  \/ \E result_chars \in ResultChars, chars \in StateChars, image \in BOOLEAN :
       AddStateMessage(result_chars, chars, image)
  \/ CutMessages

SpecManager == Init /\ [][NextManager]_vars

\* ------------------------------------------------------------------ claims

IsRun(c) == cur[c].type = "command" /\ cur[c].mode = "run"

\* the statements execute_command runs for the message of connection c
Statements(c) == SplitBashCommands(Strip(cur[c].command))

Terminating(s) == {i \in 1..Len(s) : s[i].type \in {"finish", "error"}}

\* C1: on every session at most one `run` command is in flight, under any
\* interleaving of run, kill_process, reset and send_* messages of any
\* number of connections.
C1_OneRunInFlight == \A t \in Terms : Cardinality(InFlightOn(t)) <= 1

\* C2: a `run` that finds the running flag set is answered with a frame of
\* type `error` carrying terminal_status=running.
C2_BusyAnsweredWithError ==
  \A c \in Conns : \A i \in 1..Len(stream[c]) :
    stream[c][i].result = RBusy =>
      stream[c][i].type = "error" /\ stream[c][i].terminal_status = "running"

\* C3: the frames answering a `run` request hold exactly one terminating frame
\* (finish or error) once the request is answered and none before, every
\* frame carries the request's action_id, and sub_command_index never
\* decreases along the stream.
C3_RunStream ==
  \A c \in Conns :
    IsRun(c) =>
      LET s == stream[c] IN
      /\ Cardinality(Terminating(s)) = IF pc[c] = "replied" /\ connected[c] THEN 1 ELSE 0
      /\ \A i \in 1..Len(s) : s[i].action_id = cur[c].action_id
      /\ \A i, j \in 1..Len(s) :
           i < j => s[i].sub_command_index <= s[j].sub_command_index

\* C3 witness: a two-statement run has been answered with one finish frame
C3_Witness ==
  \E c \in Conns :
    /\ IsRun(c) /\ pc[c] = "replied" /\ cur[c].command = <<"a", "b">>
    /\ Len(stream[c]) = 1
    /\ stream[c][1].type = "finish" /\ stream[c][1].result = RDone

\* C4: between two turns of the event loop the running flag of a session is
\* true if and only if a `run` command is outstanding on it.
C4_RunningIffOutstanding ==
  owner = 0 => \A t \in Terms : is_running[t] <=> InFlightOn(t) # {}

\* C5: the history of a session holds at most 100 entries, ordered by
\* submission time, and the entries kept are the most recent submissions (the
\* oldest is dropped first), also when the commands end by a shell crash.
C5_HistoryBounded ==
  LET h == history["t1"] IN
  /\ Len(h) <= HistoryCap
  /\ \A i, j \in 1..Len(h) : i < j => h[i].ts < h[j].ts
  /\ {h[i].ts : i \in 1..Len(h)} = (clock - Len(h) + 1)..clock

\* C5 witness: the history is full, its oldest entries have been dropped and
\* the command that pushed the last entry ended by a shell crash
C5_Witness ==
  /\ Len(history["t1"]) = HistoryCap
  /\ history["t1"][1].ts > 1
  /\ pc[1] = "run_reply" /\ result[1] = REof

\* C6: a kill_process handled while a `run` is in flight on the session
\* cancels that run: the run completes with an error.
C6_KillCancelsRun ==
  \A c \in Conns :
    (IsRun(c) /\ pc[c] = "run_reply" /\ killed[c]) => result[c] \in {REof, RError}

\* C7: a send_* message that arrived while a run was in flight on its session
\* is written to the pty while that run is still in flight.
C7_SendWrittenDuringRun ==
  [][\A d \in Conns :
       (cur[d].mode \in SendModes /\ cur[d].mode \notin writes[d]
          /\ cur[d].mode \in writes'[d])
       => cur[d].during \subseteq InFlightRuns(cur[d].terminal)]_vars

\* C8: a `run` of n >= 2 statements is answered with the frames of each
\* statement: n-1 frames tagged partial_finish and a last frame tagged finish.
C8_PartialFinishPerStatement ==
  \A c \in Conns :
    (IsRun(c) /\ pc[c] = "replied" /\ connected[c] /\ Len(Statements(c)) >= 2
       /\ \A i \in 1..Len(stream[c]) : stream[c][i].result # RBusy)
    => LET s == stream[c] IN
       /\ Cardinality({i \in 1..Len(s) : s[i].type = "partial_finish"})
            = Len(Statements(c)) - 1
       /\ s # <<>> /\ s[Len(s)].type = "finish"

\* C9: a `run` request that arrived while the running flag of its session
\* was set, and whose handler still finds the flag set by another run, writes
\* nothing to the pty: not the command, not the cd/pwd lines of exec_dir.
C9_BusyRunWritesNothing ==
  [][\A c \in Conns :
       (IsRun(c) /\ busyAtStart[c] /\ is_running[cur[c].terminal] /\ ~InFlight(c))
       => (writes'[c] \cap {"cd", "pwd", "cmd"}) \subseteq writes[c]]_vars

\* C10: a task that is in flight when its connection disconnects is
\* cancelled: it does not run to completion.
C10_DisconnectCancelsTasks == \A c \in Conns : orphan[c] => pc[c] # "replied"

\* C11: every name is registered to exactly one Terminal object, whatever the
\* interleaving of create_or_get_terminal calls: no name is stored twice, a
\* registered name stays registered, and a handler that has obtained its
\* terminal finds its name registered.
C11_RegistryOneSessionPerName ==
  /\ \A i, j \in 1..Len(terminals) : terminals[i] = terminals[j] => i = j
  /\ \A t \in Names : shell[t] # "none" => t \in Range(terminals)
  /\ \A c \in Conns :
       (cur[c].type \in {"view", "reset", "kill_process"}
          /\ pc[c] \notin {"recv", "dispatch", "closed"})
       => cur[c].terminal \in Range(terminals)

\* C11 witness: both names are registered, and a second call for a name
\* returned while the call that created the name was still inside init
C11_Witness ==
  /\ Len(terminals) = 2
  /\ \E c, d \in Conns :
       /\ c # d /\ cur[c].terminal = cur[d].terminal
       /\ cur[c].type = "view" /\ pc[c] = "sleep" /\ ret[c] = "view"
       /\ cur[d].type = "view" /\ pc[d] = "replied"

\* C12: every frame sent on a connection answers the message the connection
\* is handling and carries that message's terminal and action_id.
C12_FramesKeyedToInput ==
  \A c \in Conns : \A i \in 1..Len(stream[c]) :
    /\ cur[c].type # "none"
    /\ stream[c][i].terminal = cur[c].terminal
    /\ stream[c][i].action_id = cur[c].action_id

\* C12 amended: every frame answers the message being handled; it carries the
\* message's terminal and action_id unless the text was not valid JSON, and
\* then it carries empty strings.
C12_FramesKeyedWhenParsed ==
  \A c \in Conns : \A i \in 1..Len(stream[c]) :
    /\ cur[c].type # "none"
    /\ IF cur[c].type = "invalid_json"
       THEN stream[c][i].terminal = "" /\ stream[c][i].action_id = 0
       ELSE /\ stream[c][i].terminal = cur[c].terminal
            /\ stream[c][i].action_id = cur[c].action_id

\* C12 witness: a text that is not JSON, sent after another message, has been
\* answered with a frame that carries empty strings
C12_Witness ==
  \E c \in Conns :
    /\ cur[c].type = "invalid_json" /\ cur[c].action_id > 1
    /\ pc[c] = "replied" /\ Len(stream[c]) = 1
    /\ stream[c][1].type = "error" /\ stream[c][1].action_id = 0

\* C13: once kill_process has been answered, the session is still registered
\* under its name, its shell is alive, and every entry of its history has
\* finished = TRUE.
C13_KillLeavesFinishedHistory ==
  \A c \in Conns :
    (cur[c].type = "kill_process" /\ pc[c] = "replied") =>
      LET t == cur[c].terminal IN
      /\ t \in Range(terminals)
      /\ shell[t] = "alive"
      /\ \A i \in 1..Len(history[t]) : history[t][i].finished

\* C14: the step in which `reset` acts on a session leaves the session
\* registered under its name with a live shell and running = FALSE, and
\* changes no other session's shell, history or running flag.
C14_ResetFrame ==
  [][\A c \in Conns :
       (cur[c].type = "reset" /\ pc[c] = "reset" /\ pc'[c] # "reset") =>
         LET t == cur[c].terminal IN
         /\ t \in Range(terminals')
         /\ shell'[t] = "alive" /\ ~is_running'[t]
         /\ \A u \in Names \ {t} :
              /\ shell'[u] = shell[u]
              /\ history'[u] = history[u]
              /\ is_running'[u] = is_running[u]]_vars

\* C14 witness: a reset has acted on a session while a run is in flight on
\* the other session
C14_Witness ==
  \E c \in Conns :
    /\ cur[c].type = "reset" /\ pc[c] = "sleep" /\ ret[c] = "reset_reply"
    /\ cur[c].terminal \in Range(terminals)
    /\ ~is_running[cur[c].terminal] /\ history[cur[c].terminal] = <<>>
    /\ \E u \in Names \ {cur[c].terminal} :
         is_running[u] /\ history[u] # <<>> /\ InFlightOn(u) # {}

\* C15: no step of the handler of a send_line, send_key or send_control
\* message changes the running flag of any session, whether the write to the
\* pty succeeds or raises.
C15_SendKeepsRunningFlag ==
  [][\A c \in Conns :
       ((cur[c].mode \in SendModes \/ cur'[c].mode \in SendModes) /\ pc'[c] # pc[c])
       => is_running' = is_running]_vars

\* C15 witness: the write of a send_control raised while the running flag of
\* the session was set, and the flag is still set
C15_Witness ==
  \E c \in Conns :
    /\ cur[c].mode = "send_control" /\ pc[c] = "replied"
    /\ stream[c] # <<>> /\ stream[c][1].type = "error"
    /\ is_running[cur[c].terminal]

SumLen(q) ==
  LET RECURSIVE Sum(_)
      Sum(i) == IF i = 0 THEN 0 ELSE q[i].len + Sum(i - 1)
  IN Sum(Len(q))

\* the full view has been computed
Viewed == val # NoVal /\ arg.full_history

\* the items of the view are the latest entries of the history, in order
KeepsLatest(h, q) ==
  LET items == SelectSeq(q, LAMBDA l : l.kind = "item")
      n == Len(items) IN
  /\ n <= Len(h)
  /\ \A i \in 1..n : items[i].ts = h[Len(h) - n + i].ts
  /\ n < Len(h) => q[1] = HistMarker

\* C16: in the full view every entry's text is at most 5000 characters, the
\* whole response is at most 10000 characters, and the entries left out are
\* the older ones, with the "... earlier history truncated ..." marker.
C16_ViewCaps ==
  Viewed =>
    /\ \A i \in 1..Len(val) : val[i].text <= MaxTextLength
    /\ SumLen(val) <= MaxTotalLength
    /\ KeepsLatest(arg.history, val)

\* C17: process_terminal_output is idempotent on its own output:
\* process(process(x)) = process(x) for every text x.
C17_ProcessIdempotent ==
  val # NoVal => ProcessTerminalOutput(val.text) = val.text

\* C18: the status changes only from "started" to "initializing", from
\* "initializing" to "ready", and to "started" by a teardown: a failed
\* initialization or the close of restart_browser; no step changes it in
\* another way.
C18_StatusTransitions ==
  [][status' # status =>
       \/ status = "started" /\ status' = "initializing"
       \/ status = "initializing" /\ status' = "ready"
       \/ /\ status' = "started"
          /\ \E t \in Tasks :
               \/ bpc[t] \in InitPcs /\ bpc'[t] = "idle"
               \/ bpc[t] \in {"closing", "closing_ctx"}
                  /\ bpc'[t] = "restart_shell"]_vars

\* C19: whenever a task is inside controller.act, the status is "ready".
C19_ActOnlyWhenReady ==
  \A t \in Tasks : bpc[t] = "act" => status = "ready"

\* C20: the session serializes the actions: at most one task is inside
\* controller.act at any time, however many requests are in progress.
C20_OneActionAtATime ==
  Cardinality({t \in Tasks : bpc[t] = "act"}) <= 1

\* the task's request is answered in this step
Answers(t) == bpc[t] # "idle" /\ bpc'[t] = "idle" /\ bresp'[t] # "none"

\* the status says "initializing" and no task is inside initialize: every
\* action that arrives waits until its timeout
StuckInitializing ==
  status = "initializing" /\ \A t \in Tasks : bpc[t] \notin InitPcs

\* C21: a request that hit a dead page or the timeout (it is answered from
\* the recovery by recreate_page) is answered with status "error", after
\* recreate_page has returned, and leaves the session in a state where the
\* next action can proceed.
C21_RecoveryAnswersError ==
  [][\A t \in Tasks :
       (Answers(t) /\ bfrom[t] \in Recreates)
       => /\ bresp'[t] = "error"
          /\ bpc[t] = "recreate"
          /\ ~StuckInitializing']_vars

\* the task is handling a /browser/action request
IsRequest(t) == bfrom[t] \in {"execute"} \cup Recreates

\* C22: every /browser/action request ends with a BrowserActionResponse of
\* status "success" or "error", and a "success" is built from the state
\* read after the request's own act (never from an older page).
C22_AnsweredSuccessOrError ==
  [][\A t \in Tasks :
       (IsRequest(t) /\ bpc[t] # "idle" /\ bpc'[t] = "idle")
       => /\ bresp'[t] \in {"success", "error"}
          /\ bresp'[t] = "success" => bpc[t] = "update"]_vars

\* the request of task t arrived while the status was not "ready" and has
\* neither executed nor been answered yet
NotReadyYet(t) == bfrom[t] = "execute" /\ bpc[t] \in InitPcs \cup {"wait"}

\* the request of task t is inside controller.act or has been answered
ExecutesOrAnswered(t) ==
  bpc[t] = "act" \/ (bpc[t] = "idle" /\ bresp[t] # "none")

\* C23: a request that arrives while the status is not "ready" initializes
\* the browser or waits, and in the end it executes or is answered, also
\* when the initialization it waits for fails.
C23_NotReadyEnds ==
  \A t \in Tasks : NotReadyYet(t) ~> ExecutesOrAnswered(t)

\* C23 witness: a request that waited for another task's initialization,
\* which failed, has been answered with an error
C23_Witness ==
  \E t \in Tasks :
    /\ bwaited[t] /\ bpc[t] = "idle" /\ bresp[t] = "error"
    /\ bops = 2 /\ ~browser
    /\ \E u \in Tasks \ {t} : bpc[u] = "idle" /\ bresp[u] = "error"

\* the requests of the text editor with the given command
EdEntries(command) == {i \in DOMAIN elog : elog[i].command = command}

\* the request was rejected: its result is the text of a ToolError
Rejected(e) == e.resp.result.kind = "error"

\* C24: create writes the given text when the path does not exist or holds
\* an empty file, and is rejected, the file left as it was, exactly when a
\* non-empty file is at the path.
C24_CreateRefusesNonEmptyOnly ==
  \A i \in EdEntries("create") :
    LET e == elog[i] IN
    e.kind # "dir" =>
      IF e.kind = "file" /\ e.before # <<>>
      THEN Rejected(e) /\ e.after = e.before
      ELSE ~Rejected(e) /\ e.after = e.a.file_text

\* C25: find_file is accepted on a directory, where it answers with the
\* sorted files that match the glob, and rejected on a file; the other
\* commands pass the check of the path's type on a file and are rejected on
\* a directory.
C25_PathTypes ==
  \A i \in DOMAIN elog :
    LET e == elog[i]
        res == e.resp.result IN
    /\ (e.kind = "dir" /\ e.command = "find_file") =>
         /\ ~Rejected(e)
         /\ res.lines = SelectSeq(DirListing,
                                  LAMBDA f : e.a.glob \in {<<>>, <<"*">>} \/ f = e.a.glob)
    /\ (e.kind = "dir" /\ e.command # "find_file") => Rejected(e)
    /\ (e.kind = "file" /\ e.command = "find_file") => Rejected(e)
    /\ (e.kind = "file" /\ e.command # "find_file") =>
         res.why \notin {"not_dir", "is_dir"}

\* C26: a rejected request is answered with an error response: the status
\* is "error" whenever the result is the text of an error.
C26_RejectedIsError ==
  \A i \in DOMAIN elog : Rejected(elog[i]) => elog[i].resp.status = "error"

\* text.split(sep) for a non-empty text sep
RECURSIVE SplitBy(_, _)
SplitBy(text, sep) ==
  IF \E i \in 0..(Len(text) - Len(sep)) : StartsWith(Drop(text, i), sep)
  THEN LET i == CHOOSE j \in 0..(Len(text) - Len(sep)) :
                  /\ StartsWith(Drop(text, j), sep)
                  /\ \A k \in 0..(j - 1) : ~StartsWith(Drop(text, k), sep)
       IN <<SubSeq(text, 1, i)>> \o SplitBy(Drop(text, i + Len(sep)), sep)
  ELSE <<text>>

\* sep.join(parts) for a text sep
RECURSIVE JoinBy(_, _)
JoinBy(parts, sep) ==
  IF Len(parts) = 1 THEN parts[1]
  ELSE parts[1] \o sep \o JoinBy(Tail(parts), sep)

\* C27: on a file, str_replace with an old_str that occurs puts new_str in
\* the place of every occurrence and answers with their number and the new
\* content; an empty old_str is rejected and an old_str that does not occur
\* gets a warning, and both leave the file as it was.
C27_StrReplace ==
  \A i \in EdEntries("str_replace") :
    LET e == elog[i]
        res == e.resp.result
        parts == SplitBy(e.before, e.a.old_str) IN
    e.kind = "file" =>
      IF e.a.old_str = <<>> THEN Rejected(e) /\ e.after = e.before
      ELSE IF Len(parts) = 1 THEN res.kind = "warning" /\ e.after = e.before
      ELSE /\ res.kind = "replaced"
           /\ e.after = JoinBy(parts, e.a.new_str)
           /\ res.count = Len(parts) - 1
           /\ res.file_info.content = e.after

\* C27 witness: a str_replace has replaced two occurrences
C27_Witness ==
  \E i \in EdEntries("str_replace") :
    /\ elog[i].resp.result.kind = "replaced"
    /\ elog[i].resp.result.count = 2
    /\ elog[i].after # elog[i].before

\* the second request is the first str_replace the other way round, on a file
RoundTrip ==
  /\ Len(elog) = 2
  /\ elog[1].command = "str_replace" /\ elog[2].command = "str_replace"
  /\ elog[1].kind = "file"
  /\ elog[2].a.old_str = elog[1].a.new_str
  /\ elog[2].a.new_str = elog[1].a.old_str

\* the texts overlap: one occurs in the other, or one ends with what the
\* other begins with
Overlap(a, b) ==
  \/ Occurs(a, b) \/ Occurs(b, a)
  \/ \E n \in 1..Len(a) : n <= Len(b) /\ SubSeq(a, Len(a) - n + 1, Len(a)) = SubSeq(b, 1, n)
  \/ \E n \in 1..Len(b) : n <= Len(a) /\ SubSeq(b, Len(b) - n + 1, Len(b)) = SubSeq(a, 1, n)

\* C28 as stated: for non-empty A and B, str_replace(A, B) then
\* str_replace(B, A) restores the content if and only if A and B do not
\* overlap.
C28_RoundTripIffNoOverlap ==
  (RoundTrip /\ elog[1].a.old_str # <<>> /\ elog[1].a.new_str # <<>>)
  => (elog[2].after = elog[1].before
        <=> ~Overlap(elog[1].a.old_str, elog[1].a.new_str))

\* C28 as amended: str_replace(A, B) then str_replace(B, A) restores the
\* content when B is not empty and no character of B is in the content.
C28_RoundTripFreshB ==
  (/\ RoundTrip
   /\ elog[1].a.new_str # <<>>
   /\ Range(elog[1].a.new_str) \cap Range(elog[1].before) = {})
  => elog[2].after = elog[1].before

\* C28 witness: a round trip that replaced two occurrences of A by a B whose
\* characters the content did not have, and back
C28_Witness ==
  /\ RoundTrip
  /\ Range(elog[1].a.new_str) \cap Range(elog[1].before) = {}
  /\ elog[1].resp.result.kind = "replaced" /\ elog[1].resp.result.count = 2
  /\ elog[2].resp.result.kind = "replaced"
  /\ elog[2].after = elog[1].before

\* a write of a text (no append, no added newline) and then a view of the
\* whole file
WriteThenView ==
  /\ Len(elog) = 2
  /\ elog[1].command = "write" /\ elog[1].a = [NoArgs EXCEPT !.file_text = elog[1].a.file_text]
  /\ elog[1].kind # "dir"
  /\ elog[2].command = "view" /\ Len(elog[2].a.view_range) # 2

\* the text of the lines a view shows, without header and line numbers
Shown(e) == JoinWith(e.resp.result.lines, "N")

\* C29 as stated: write(path, X) then view(path) shows X.
C29_ViewShowsWritten ==
  WriteThenView => Shown(elog[2]) = elog[1].a.file_text

\* C29 as amended: write(path, X) then view(path) shows X with its tabs
\* expanded to the next multiple of four columns (X itself when it has no
\* tab), and the file_info of the view holds X.
C29_ViewShowsExpanded ==
  WriteThenView =>
    LET x == elog[1].a.file_text IN
    /\ elog[2].resp.result.file_info.content = x
    /\ Shown(elog[2]) = ExpandTabs(x, 0)
    /\ "T" \notin Range(x) => Shown(elog[2]) = x
    /\ Len(Shown(elog[2])) >= Len(x)
    /\ SelectSeq(Shown(elog[2]), LAMBDA ch : ch # " ")
         = SelectSeq(x, LAMBDA ch : ch # "T")

\* C29 witness: a text with a tab and a newline was written and viewed
C29_Witness ==
  /\ WriteThenView
  /\ {"T", "N"} \subseteq Range(elog[1].a.file_text)
  /\ elog[2].resp.result.kind = "view"
  /\ Len(elog[2].resp.result.lines) = 3

\* C30: the formatted text a view answers with (a part of the response body)
\* is at most 16000 characters, whatever the file holds.
C30_OutputCap ==
  val # NoVal => val.out <= MaxResponseLen

\* the requests of the log
Requests == {slog[i] : i \in 1..Len(slog)}
\* the request answered last
LastRequest == slog[Len(slog)]

\* the least k with k * d >= n
Ceiling(n, d) == CHOOSE k \in 0..n : k * d >= n /\ (k = 0 \/ (k - 1) * d < n)

\* the orders a list of parts can be given in
Orders(parts) ==
  {[i \in 1..Len(parts) |-> parts[p[i]]] : p \in Permutations(1..Len(parts))}

\* C31: a multipart upload of a file of N bytes with a part size of at least
\* 1 produces ceil(N / part_size) parts, the bytes it assembles are the
\* bytes of the file, and combine_parts assembles the same bytes from the
\* parts in every order.
C31_MultipartRoundTrip ==
  (slog # <<>> /\ LastRequest.op = "multipart"
     /\ LastRequest.file.kind = "file" /\ LastRequest.part_size >= 1)
  => /\ Len(LastRequest.parts)
          = Ceiling(Len(LastRequest.file.data), LastRequest.part_size)
     /\ LastRequest.body = "success"
        => /\ LastRequest.out = LastRequest.file.data
           /\ storage[LastRequest.ref] = LastRequest.file.data
           /\ \A parts \in Orders(LastRequest.parts) :
                CombineParts(partfiles, parts) = LastRequest.file.data

\* a file of three bytes, not all equal, was uploaded in two parts
C31_Witness ==
  /\ slog # <<>>
  /\ LastRequest.op = "multipart"
  /\ LastRequest.body = "success"
  /\ LastRequest.file.data = <<"x", "y", "y">>
  /\ LastRequest.part_size = 2
  /\ Len(LastRequest.parts) = 2
  /\ storage[LastRequest.ref] = <<"x", "y", "y">>

\* C32: once a multipart upload has been answered, no part file of that
\* upload is left under the temporary directory.
C32_PartsReleased ==
  \A e \in Requests :
    e.op = "multipart"
    => \A x \in DOMAIN partfiles : ~(x[1] = e.at /\ x[2] = e.file.name)

\* C34: the file of every key of the last init-sandbox request holds the
\* value of the request, and every value an init-sandbox request has stored
\* for a key is still the content of the key's file or of a backup of it.
C34_NoSecretLost ==
  /\ (slog # <<>> /\ LastRequest.op = "init_sandbox")
     => \A k \in DOMAIN LastRequest.secrets :
          /\ SecretFile(k) \in DOMAIN secretfiles
          /\ secretfiles[SecretFile(k)] = LastRequest.secrets[k]
  /\ \A e \in Requests :
       e.op = "init_sandbox"
       => \A k \in DOMAIN e.secrets :
            \E x \in DOMAIN secretfiles : x[1] = k /\ secretfiles[x] = e.secrets[k]

\* C35: every response carries the X-Process-Time header.
C35_EveryResponseTimed ==
  \A e \in Requests : e.timed

\* C36: a request naming a file that does not exist is answered with 404.
C36_MissingFileIs404 ==
  \A e \in Requests :
    (e.op \in {"get_file", "upload", "multipart"} /\ e.file.kind = "absent")
    => e.code = 404

\* C37: the reference every upload returned still designates the bytes of
\* that upload.
C37_UploadsKeepTheirBytes ==
  \A e \in Requests :
    e.ref # <<>> => (e.ref \in DOMAIN storage /\ storage[e.ref] = e.file.data)

\* the entries of a directory: their paths from the directory, and kinds
RECURSIVE Entries(_)
Entries(node) ==
  UNION {{[path |-> <<n>>, kind |-> node.items[n].kind]}
           \cup {[path |-> <<n>> \o e.path, kind |-> e.kind] :
                   e \in Entries(node.items[n])} : n \in DOMAIN node.items}

\* the entry lies under a directory with an excluded name
UnderExcluded(e) == \E i \in 1..(Len(e.path) - 1) : e.path[i] \in ExcludePatterns

\* C33: the archive zip-file builds has no entry of the tree that lies under
\* a directory with an excluded name, and has every other file of the tree.
C33_ZipOmitsExactly ==
  (val # NoVal /\ val.status = "success")
  => \A e \in Entries(arg.directory) :
       /\ UnderExcluded(e) => e \notin Entries(val.archive)
       /\ (~UnderExcluded(e) /\ e.kind = "file") => e \in Entries(val.archive)

\* C38: once state messages have been added, the tokens of the history are
\* within max_input_tokens or the history has at most 5 messages, the first
\* message is the system message, and the state message added last is still
\* in the history.
C38_HistoryWithinBudget ==
  added > 0
  => /\ current_tokens <= MaxInputTokens \/ Len(messages) <= 5
     /\ messages[1].type = "system"
     /\ \E i \in 1..Len(messages) : messages[i].step = added

\* the tasks inside initialize, past its status check
Initializing == {t \in Tasks : bpc[t] \in InitPcs}

\* C39: at most one task is inside initialize at any time, and a task enters
\* initialize only when the status is "started" (never while it is
\* "initializing" or "ready"), whoever called it.
C39_OneInitialization ==
  /\ [](Cardinality(Initializing) <= 1)
  /\ [][\A t \in Tasks :
          (bpc[t] \notin InitPcs /\ bpc'[t] \in InitPcs) => status = "started"]_vars

\* C40: a reset-all request, over the WebSocket or over HTTP, is answered
\* without an error and has by then reset every terminal that was
\* registered when it began, whatever terminals were created meanwhile.
C40_ResetAllCompletes ==
  \A c \in Conns :
    (cur[c].type \in {"reset_all", "rest_reset_all"} /\ pc[c] = "replied")
    => /\ stream[c] # <<>>
       /\ stream[c][Len(stream[c])].type \in {"action_finish", "http200"}
       /\ Unvisited(todo[c]) = {}

====
